---- MODULE Spec2Model ----
(***************************************************************************)
(* Inventory count lifecycle of IKE: count sessions, count passes and      *)
(* count lines as kept by backend/app/api/count.py over the tables of      *)
(* backend/app/models/inventory_count.py.  Every HTTP handler is one       *)
(* action: it reads the rows it queries, returns early with an error       *)
(* response where the code does, and otherwise writes and commits.         *)
(***************************************************************************)
EXTENDS Integers, Sequences, FiniteSets, TLC

\* ------------------------------------------------------------------ bounds
MaxSessions == 1
MaxPasses == 2
MaxLines == 2
MaxQty == 3
MaxTime == 1
MaxMovements == 4
MaxInstant == 2

\* ------------------------------------------------------------ fixed tables
NULL == "NULL"

\* stores.id of the Store rows
Stores == {1, 2}

\* InventoryLocation rows: id -> store_id
LocationStore == (1 :> 1) @@ (2 :> 2)

\* Product rows of the catalog
Products ==
    { [id |-> 1, sku |-> "A", cova_sku |-> "A2", category |-> "Flower", subcategory |-> "Dried Flower"],
      [id |-> 2, sku |-> "B", cova_sku |-> NULL, category |-> "Edibles", subcategory |-> NULL],
      [id |-> 3, sku |-> "C", cova_sku |-> NULL, category |-> NULL, subcategory |-> NULL] }

\* str.strip() on the strings the requests carry
strip(s) ==
    CASE s = " " -> ""
      [] s = " A2 " -> "A2"
      [] s = " flower " -> "flower"
      [] OTHER -> s

\* str.lower() on the category strings
lower(s) ==
    CASE s = "Flower" -> "flower"
      [] s = "True" -> "true"
      [] s = "Edibles" -> "edibles"
      [] s = "Dried Flower" -> "dried flower"
      [] s = "Gummies" -> "gummies"
      [] OTHER -> s

\* str(payload.get(key, "")).strip() or None
str_or_none(v) == IF v = NULL \/ strip(v) = "" THEN NULL ELSE strip(v)

\* ------------------------------------------------------------------- state
VARIABLES
    sessions,   \* inventory_count_sessions: primary key -> row
    passes,     \* inventory_count_passes:   primary key -> row
    lines,      \* inventory_count_lines:    primary key -> row
    now,        \* datetime.utcnow()
    movements,  \* inventory_movements: the rows in the order of their primary keys
    inventory,  \* inventory_items: the rows, one per (store_id, product_id) at most
    requests    \* the requests in flight: request -> what its handler has read so far

vars == <<sessions, passes, lines, now, movements, inventory, requests>>

SessionIds == 1..MaxSessions
PassIds == 1..MaxPasses
LineIds == 1..MaxLines

\* a fresh primary key (generate_uuid): an id of the table's key space that no row holds
fresh(ids, table) == CHOOSE i \in ids \ DOMAIN table : \A j \in ids \ DOMAIN table : i <= j
has_fresh(ids, table) == ids \ DOMAIN table # {}

\* a column that is NULL, or holds v
NONE == <<>>
Some(v) == <<v>>

\* payload.get(key, default) on the request's JSON object
get(payload, key, default) == IF key \in DOMAIN payload THEN payload[key] ELSE default

\* what query.first() may return over the matching rows: no row, or any one of them
NoRow == 0
first(rows) == IF rows = {} THEN {NoRow} ELSE rows

\* the error kinds of the responses: 404, and the 400s by their message
NotFound == "NotFound"
InvalidState == "InvalidState"
ValidationError == "ValidationError"
ScopeMismatch == "ScopeMismatch"

\* return jsonify({"error": ...}), code
error(code, kind) == [code |-> code, body |-> [error |-> kind]]

\* return jsonify(_serialize_...(row)), code
ok(code, row) == [code |-> code, body |-> [error |-> NULL, row |-> row]]

\* the request was refused: the handler returned before it wrote anything
failed(response) == response.code >= 400

Init ==
    /\ sessions = <<>>
    /\ passes = <<>>
    /\ lines = <<>>
    /\ now = 0
    /\ movements = <<>>
    /\ inventory = {}
    /\ requests = <<>>

\* ---------------------------------------------------------------- sessions
\* the row POST /sessions inserts
new_session(store_id) == [store_id |-> store_id, status |-> "draft", closed_at |-> NONE]

\* POST /sessions: what it returns
create_session_response(payload) ==
    LET store_id == get(payload, "store_id", 0) IN
    IF store_id = 0 THEN error(400, ValidationError)            \* "store_id required"
    ELSE IF store_id \notin Stores THEN error(404, NotFound)    \* "Store not found"
    ELSE ok(201, new_session(store_id))

\* POST /sessions
create_session(payload) ==
    IF failed(create_session_response(payload))
    THEN UNCHANGED vars
    ELSE /\ has_fresh(SessionIds, sessions)
         /\ sessions' = sessions @@
                (fresh(SessionIds, sessions) :> new_session(payload["store_id"]))
         /\ UNCHANGED <<passes, lines, now, movements, inventory, requests>>

\* fault: start does not look at the session's status
start_session_response_any(session_id) ==
    IF session_id \notin DOMAIN sessions THEN error(404, NotFound)
    ELSE ok(200, [sessions[session_id] EXCEPT !.status = "in_progress"])

\* POST /sessions/<session_id>/start: what it returns
start_session_response(session_id) ==
    IF session_id \notin DOMAIN sessions THEN error(404, NotFound)      \* "Session not found"
    ELSE IF sessions[session_id].status # "draft"
    THEN error(400, InvalidState)                   \* "Cannot start session in ... status"
    ELSE ok(200, [sessions[session_id] EXCEPT !.status = "in_progress"])

\* POST /sessions/<session_id>/start
start_session(session_id) ==
    IF failed(start_session_response(session_id))
    THEN UNCHANGED vars
    ELSE /\ sessions' = [sessions EXCEPT ![session_id].status = "in_progress"]
         /\ UNCHANGED <<passes, lines, now, movements, inventory, requests>>

\* fault: the count of open passes is skipped
open_passes_zero(session_id) == 0

\* InventoryCountPass.query.filter_by(session_id=session_id, status="in_progress").count()
open_passes(session_id) ==
    Cardinality({p \in DOMAIN passes : /\ passes[p].session_id = session_id
                                       /\ passes[p].status = "in_progress"})

\* POST /sessions/<session_id>/submit: what it returns
submit_session_response(session_id) ==
    IF session_id \notin DOMAIN sessions THEN error(404, NotFound)      \* "Session not found"
    ELSE IF sessions[session_id].status # "in_progress"
    THEN error(400, InvalidState)                   \* "Cannot submit session in ... status"
    ELSE IF open_passes(session_id) > 0
    THEN error(400, InvalidState)                   \* "... passes still in progress"
    ELSE ok(200, [sessions[session_id] EXCEPT !.status = "submitted"])

\* POST /sessions/<session_id>/submit
submit_session(session_id) ==
    IF failed(submit_session_response(session_id))
    THEN UNCHANGED vars
    ELSE /\ sessions' = [sessions EXCEPT ![session_id].status = "submitted"]
         /\ UNCHANGED <<passes, lines, now, movements, inventory, requests>>

\* ------------------------------------------------------------------ passes
\* fault: opening a pass never starts the session
auto_start_never(status) == status

\* the status create_pass leaves the session in: auto-start if still draft
auto_start(status) == IF status = "draft" THEN "in_progress" ELSE status

\* the row POST /sessions/<session_id>/passes inserts
new_pass(session_id, payload) ==
    [session_id |-> session_id,
     location_id |-> payload["location_id"],
     category |-> str_or_none(get(payload, "category", "")),
     subcategory |-> str_or_none(get(payload, "subcategory", "")),
     started_at |-> now,
     submitted_at |-> NONE,
     status |-> "in_progress"]

\* fault: a pass is opened whatever the status of the session
create_pass_response_any_status(session_id, payload) ==
    LET location_id == get(payload, "location_id", 0) IN
    IF session_id \notin DOMAIN sessions THEN error(404, NotFound)
    ELSE IF location_id = 0 THEN error(400, ValidationError)
    ELSE IF \/ location_id \notin DOMAIN LocationStore
            \/ LocationStore[location_id] # sessions[session_id].store_id
    THEN error(400, ValidationError)
    ELSE ok(201, new_pass(session_id, payload))

\* fault: the location's store is not compared with the session's
create_pass_response_any_store(session_id, payload) ==
    LET location_id == get(payload, "location_id", 0) IN
    IF session_id \notin DOMAIN sessions THEN error(404, NotFound)
    ELSE IF sessions[session_id].status \notin {"draft", "in_progress"}
    THEN error(400, InvalidState)
    ELSE IF location_id = 0 THEN error(400, ValidationError)
    ELSE IF location_id \notin DOMAIN LocationStore THEN error(400, ValidationError)
    ELSE ok(201, new_pass(session_id, payload))

\* POST /sessions/<session_id>/passes: what it returns
create_pass_response(session_id, payload) ==
    LET location_id == get(payload, "location_id", 0) IN
    IF session_id \notin DOMAIN sessions THEN error(404, NotFound)      \* "Session not found"
    ELSE IF sessions[session_id].status \notin {"draft", "in_progress"}
    THEN error(400, InvalidState)                   \* "Cannot add passes to ... session"
    ELSE IF location_id = 0 THEN error(400, ValidationError)    \* "location_id required"
    ELSE IF \/ location_id \notin DOMAIN LocationStore
            \/ LocationStore[location_id] # sessions[session_id].store_id
    THEN error(400, ValidationError)                \* "Invalid location"
    ELSE ok(201, new_pass(session_id, payload))

\* POST /sessions/<session_id>/passes
create_pass(session_id, payload) ==
    IF failed(create_pass_response(session_id, payload))
    THEN UNCHANGED vars
    ELSE /\ has_fresh(PassIds, passes)
         /\ sessions' = [sessions EXCEPT ![session_id].status = auto_start(@)]
         /\ passes' = passes @@ (fresh(PassIds, passes) :> new_pass(session_id, payload))
         /\ UNCHANGED <<lines, now, movements, inventory, requests>>

\* fault: submit does not stamp submitted_at
submitted_unstamped(pass) == [pass EXCEPT !.status = "submitted"]

\* fault: submitting a pass restarts its window
submitted_restarted(pass) ==
    [pass EXCEPT !.status = "submitted", !.started_at = now, !.submitted_at = Some(now)]

\* the row submit_pass commits
submitted(pass) == [pass EXCEPT !.status = "submitted", !.submitted_at = Some(now)]

\* POST /passes/<pass_id>/submit: what it returns
submit_pass_response(pass_id) ==
    IF pass_id \notin DOMAIN passes THEN error(404, NotFound)           \* "Pass not found"
    ELSE IF passes[pass_id].status # "in_progress"
    THEN error(400, InvalidState)                   \* "Cannot submit pass in ... status"
    ELSE ok(200, submitted(passes[pass_id]))

\* POST /passes/<pass_id>/submit
submit_pass(pass_id) ==
    IF failed(submit_pass_response(pass_id))
    THEN UNCHANGED vars
    ELSE /\ passes' = [passes EXCEPT ![pass_id] = submitted(@)]
         /\ UNCHANGED <<sessions, lines, now, movements, inventory, requests>>

\* fault: voiding a pass clears the end of its window
voided_cleared(pass) == [pass EXCEPT !.status = "voided", !.submitted_at = NONE]

\* the row void_pass commits
voided(pass) == [pass EXCEPT !.status = "voided"]

\* fault: void is refused on every pass that is not in_progress
void_pass_response_open_only(pass_id) ==
    IF pass_id \notin DOMAIN passes THEN error(404, NotFound)
    ELSE IF passes[pass_id].status # "in_progress" THEN error(400, InvalidState)
    ELSE ok(200, [passes[pass_id] EXCEPT !.status = "voided"])

\* POST /passes/<pass_id>/void: what it returns
void_pass_response(pass_id) ==
    IF pass_id \notin DOMAIN passes THEN error(404, NotFound)           \* "Pass not found"
    ELSE IF passes[pass_id].status = "voided"
    THEN error(400, InvalidState)                   \* "Pass already voided"
    ELSE ok(200, voided(passes[pass_id]))

\* POST /passes/<pass_id>/void
void_pass(pass_id) ==
    IF failed(void_pass_response(pass_id))
    THEN UNCHANGED vars
    ELSE /\ passes' = [passes EXCEPT ![pass_id] = voided(@)]
         /\ UNCHANGED <<sessions, lines, now, movements, inventory, requests>>

\* ------------------------------------------------------------------- lines
\* fault: a barcode that matches no product falls back to the whole catalog
find_product_any(barcode) ==
    IF \E pr \in Products : pr.sku = barcode \/ pr.cova_sku = barcode
    THEN {pr \in Products : pr.sku = barcode \/ pr.cova_sku = barcode}
    ELSE Products

\* Product.query.filter((Product.sku == barcode) | (Product.cova_sku == barcode))
find_product(barcode) ==
    {pr \in Products : pr.sku = barcode \/ (pr.cova_sku # NULL /\ pr.cova_sku = barcode)}

\* the product row of a product id, or of no product
NoProduct == [id |-> NoRow, sku |-> NULL, cova_sku |-> NULL, category |-> NULL, subcategory |-> NULL]
product_row(product_id) ==
    IF product_id = NoRow THEN NoProduct ELSE CHOOSE pr \in Products : pr.id = product_id

\* fault: the scope is compared as written, not ignoring case
scope_mismatch_exact(scope, actual) ==
    scope # NULL /\ scope # "" /\ actual # NULL /\ actual # "" /\ actual # scope

\* "if count_pass.category and product.category: if product.category.lower() !=
\* count_pass.category.lower()": both columns hold a non-empty string and the
\* two differ, ignoring case
scope_mismatch(scope, actual) ==
    scope # NULL /\ scope # "" /\ actual # NULL /\ actual # "" /\ lower(actual) # lower(scope)

\* fault: the lookup of the existing Line finds nothing
existing_line_none(pass_id, sku) == {}

\* InventoryCountLine.query.filter_by(count_pass_id=pass_id, sku=sku)
existing_line(pass_id, sku) ==
    {l \in DOMAIN lines : lines[l].count_pass_id = pass_id /\ lines[l].sku = sku}

\* fault: the scan replaces the quantity instead of adding to it
increment_overwrite(old_qty, counted_qty) == counted_qty

\* existing_line.counted_qty += counted_qty
increment(old_qty, counted_qty) == old_qty + counted_qty

\* fault: the scan that increments a Line rewrites it from the request
incremented_line_rewritten(line, payload) ==
    [line EXCEPT !.counted_qty = increment(@, get(payload, "counted_qty", 1)),
                 !.captured_at = now,
                 !.barcode = strip(get(payload, "barcode", "")),
                 !.package_id = str_or_none(get(payload, "package_id", "")),
                 !.confidence = strip(get(payload, "confidence", "scanned")),
                 !.notes = str_or_none(get(payload, "notes", ""))]

\* the row add_line commits for the line it found
incremented_line(line, payload) ==
    [line EXCEPT !.counted_qty = increment(@, get(payload, "counted_qty", 1)),
                 !.captured_at = now,
                 !.notes = IF str_or_none(get(payload, "notes", "")) # NULL
                           THEN str_or_none(get(payload, "notes", "")) ELSE @]

\* fault: the Line is keyed by the code that was scanned
new_line_scanned(pass_id, product, payload) ==
    [count_pass_id |-> pass_id,
     product_id |-> product.id,
     sku |-> strip(get(payload, "barcode", "")),
     barcode |-> strip(get(payload, "barcode", "")),
     package_id |-> str_or_none(get(payload, "package_id", "")),
     counted_qty |-> get(payload, "counted_qty", 1),
     captured_at |-> now,
     confidence |-> strip(get(payload, "confidence", "scanned")),
     notes |-> str_or_none(get(payload, "notes", ""))]

\* the row add_line inserts when it found none
new_line(pass_id, product, payload) ==
    [count_pass_id |-> pass_id,
     product_id |-> product.id,
     sku |-> product.sku,
     barcode |-> strip(get(payload, "barcode", "")),
     package_id |-> str_or_none(get(payload, "package_id", "")),
     counted_qty |-> get(payload, "counted_qty", 1),
     captured_at |-> now,
     confidence |-> strip(get(payload, "confidence", "scanned")),
     notes |-> str_or_none(get(payload, "notes", ""))]

\* POST /passes/<pass_id>/lines: what it returns, product_id and line_id being
\* what the two .first() lookups returned
add_line_response(pass_id, payload, product_id, line_id) ==
    LET barcode == strip(get(payload, "barcode", ""))
        counted_qty == get(payload, "counted_qty", 1)
        product == product_row(product_id)
    IN
    IF pass_id \notin DOMAIN passes THEN error(404, NotFound)           \* "Pass not found"
    ELSE IF passes[pass_id].status # "in_progress"
    THEN error(400, InvalidState)                   \* "Cannot add lines to ... pass"
    ELSE IF barcode = "" THEN error(400, ValidationError)       \* "barcode required"
    ELSE IF product_id = NoRow THEN error(404, NotFound)        \* "Product not found"
    ELSE IF scope_mismatch(passes[pass_id].category, product.category)
    THEN [code |-> 400,                             \* "Product category mismatch"
          body |-> [error |-> ScopeMismatch,
                    expected |-> passes[pass_id].category, got |-> product.category]]
    ELSE IF scope_mismatch(passes[pass_id].subcategory, product.subcategory)
    THEN [code |-> 400,                             \* "Product subcategory mismatch"
          body |-> [error |-> ScopeMismatch,
                    expected |-> passes[pass_id].subcategory, got |-> product.subcategory]]
    ELSE IF line_id # NoRow
    THEN [code |-> 200,
          body |-> [error |-> NULL,
                    line |-> incremented_line(lines[line_id], payload),
                    incremented |-> TRUE,
                    previous_qty |->
                        incremented_line(lines[line_id], payload).counted_qty - counted_qty]]
    ELSE [code |-> 201,
          body |-> [error |-> NULL,
                    line |-> new_line(pass_id, product, payload),
                    incremented |-> FALSE]]

\* the rows the two .first() lookups of add_line may return
add_line_product(payload) ==
    first({pr.id : pr \in find_product(strip(get(payload, "barcode", "")))})
add_line_existing(pass_id, product_id) ==
    first(existing_line(pass_id, product_row(product_id).sku))

\* POST /passes/<pass_id>/lines
add_line(pass_id, payload) ==
    \E product_id \in add_line_product(payload) :
    \E line_id \in add_line_existing(pass_id, product_id) :
        LET response == add_line_response(pass_id, payload, product_id, line_id) IN
        IF failed(response)
        THEN UNCHANGED vars
        ELSE IF response.body.incremented
        THEN /\ response.body.line.counted_qty \in 0..MaxQty
             /\ lines' = [lines EXCEPT ![line_id] = response.body.line]
             /\ UNCHANGED <<sessions, passes, now, movements, inventory, requests>>
        ELSE /\ has_fresh(LineIds, lines)
             /\ response.body.line.counted_qty \in 0..MaxQty
             /\ lines' = lines @@ (fresh(LineIds, lines) :> response.body.line)
             /\ UNCHANGED <<sessions, passes, now, movements, inventory, requests>>

\* requests of POST /passes/<pass_id>/lines served at the same time
RequestIds == {1, 2}

\* POST /passes/<pass_id>/lines up to its commit: the handler of request r has
\* looked up the pass, the product and the existing Line, and holds the response
\* it is about to commit; a request it refuses is answered at once
add_line_read(r, pass_id, payload) ==
    /\ r \notin DOMAIN requests
    /\ \E product_id \in add_line_product(payload) :
       \E line_id \in add_line_existing(pass_id, product_id) :
            LET response == add_line_response(pass_id, payload, product_id, line_id) IN
            IF failed(response)
            THEN UNCHANGED vars
            ELSE /\ response.body.line.counted_qty \in 0..MaxQty
                 /\ requests' = requests @@
                        (r :> [route |-> "add_line", pass_id |-> pass_id, payload |-> payload,
                               line_id |-> line_id, response |-> response])
                 /\ UNCHANGED <<sessions, passes, lines, now, movements, inventory>>

\* db.session.commit() of request r: the UPDATE of the columns the handler set on
\* the Line it had found (no row is written when the Line is gone), or the
\* INSERT of the Line it built
add_line_commit(r) ==
    /\ r \in DOMAIN requests
    /\ requests[r].route = "add_line"
    /\ LET line_id == requests[r].line_id
           line == requests[r].response.body.line
       IN  IF requests[r].response.body.incremented
           THEN lines' = IF line_id \in DOMAIN lines
                         THEN [lines EXCEPT ![line_id].counted_qty = line.counted_qty,
                                            ![line_id].captured_at = line.captured_at,
                                            ![line_id].notes = line.notes]
                         ELSE lines
           ELSE /\ has_fresh(LineIds, lines)
                /\ lines' = lines @@ (fresh(LineIds, lines) :> line)
    /\ requests' = [q \in DOMAIN requests \ {r} |-> requests[q]]
    /\ UNCHANGED <<sessions, passes, now, movements, inventory>>

\* fault: the correction adds the given quantity to the one the Line holds
corrected_line_added(line, payload) ==
    [line EXCEPT !.counted_qty = @ + get(payload, "counted_qty", 0),
                 !.confidence = "corrected",
                 !.captured_at = now]

\* the row update_line commits
corrected_line(line, payload) ==
    [line EXCEPT !.counted_qty = get(payload, "counted_qty", @),
                 !.notes = IF "notes" \in DOMAIN payload
                           THEN str_or_none(payload["notes"]) ELSE @,
                 !.confidence = "corrected",
                 !.captured_at = now]

\* PUT /lines/<line_id>: what it returns
update_line_response(line_id, payload) ==
    IF line_id \notin DOMAIN lines THEN error(404, NotFound)            \* "Line not found"
    ELSE IF passes[lines[line_id].count_pass_id].status # "in_progress"
    THEN error(400, InvalidState)                   \* "Cannot edit lines on submitted pass"
    ELSE ok(200, corrected_line(lines[line_id], payload))

\* PUT /lines/<line_id>
update_line(line_id, payload) ==
    IF failed(update_line_response(line_id, payload))
    THEN UNCHANGED vars
    ELSE /\ corrected_line(lines[line_id], payload).counted_qty \in 0..MaxQty
         /\ lines' = [lines EXCEPT ![line_id] = corrected_line(@, payload)]
         /\ UNCHANGED <<sessions, passes, now, movements, inventory, requests>>

\* fault: remove does not look at the status of the owning pass
delete_line_response_unguarded(line_id) ==
    IF line_id \notin DOMAIN lines THEN error(404, NotFound)
    ELSE [code |-> 200, body |-> [error |-> NULL, deleted |-> TRUE]]

\* DELETE /lines/<line_id>: what it returns
delete_line_response(line_id) ==
    IF line_id \notin DOMAIN lines THEN error(404, NotFound)            \* "Line not found"
    ELSE IF passes[lines[line_id].count_pass_id].status # "in_progress"
    THEN error(400, InvalidState)                   \* "Cannot delete lines from submitted pass"
    ELSE [code |-> 200, body |-> [error |-> NULL, deleted |-> TRUE]]

\* DELETE /lines/<line_id>
delete_line(line_id) ==
    IF failed(delete_line_response(line_id))
    THEN UNCHANGED vars
    ELSE /\ lines' = [l \in DOMAIN lines \ {line_id} |-> lines[l]]
         /\ UNCHANGED <<sessions, passes, now, movements, inventory, requests>>

\* ------------------------------------------- handlers served concurrently
\* POST /sessions/<session_id>/passes up to its commit: the handler of request r
\* has read the session and the location and answered a request it refuses
create_pass_read(r, session_id, payload) ==
    /\ r \notin DOMAIN requests
    /\ IF failed(create_pass_response(session_id, payload))
       THEN UNCHANGED vars
       ELSE /\ requests' = requests @@
                    (r :> [route |-> "create_pass", session_id |-> session_id,
                           payload |-> payload, status |-> sessions[session_id].status])
            /\ UNCHANGED <<sessions, passes, lines, now, movements, inventory>>

\* db.session.commit() of create_pass: the UPDATE of the session's status when
\* the handler had read it as draft, and the INSERT of the pass
create_pass_commit(r) ==
    /\ r \in DOMAIN requests
    /\ requests[r].route = "create_pass"
    /\ has_fresh(PassIds, passes)
    /\ sessions' = IF requests[r].status = "draft"
                   THEN [sessions EXCEPT ![requests[r].session_id].status = "in_progress"]
                   ELSE sessions
    /\ passes' = passes @@
            (fresh(PassIds, passes) :> new_pass(requests[r].session_id, requests[r].payload))
    /\ requests' = [q \in DOMAIN requests \ {r} |-> requests[q]]
    /\ UNCHANGED <<lines, now, movements, inventory>>

\* POST /sessions/<session_id>/submit up to its commit: the handler has read the
\* session and counted its in_progress passes
submit_session_read(r, session_id) ==
    /\ r \notin DOMAIN requests
    /\ IF failed(submit_session_response(session_id))
       THEN UNCHANGED vars
       ELSE /\ requests' = requests @@
                    (r :> [route |-> "submit_session", session_id |-> session_id])
            /\ UNCHANGED <<sessions, passes, lines, now, movements, inventory>>

\* db.session.commit() of submit_session: the UPDATE of the session's status
submit_session_commit(r) ==
    /\ r \in DOMAIN requests
    /\ requests[r].route = "submit_session"
    /\ sessions' = [sessions EXCEPT ![requests[r].session_id].status = "submitted"]
    /\ requests' = [q \in DOMAIN requests \ {r} |-> requests[q]]
    /\ UNCHANGED <<passes, lines, now, movements, inventory>>

\* PUT /lines/<line_id> up to its commit: the handler has read the Line and its
\* pass and holds the row it is about to write
update_line_read(r, line_id, payload) ==
    /\ r \notin DOMAIN requests
    /\ IF failed(update_line_response(line_id, payload))
       THEN UNCHANGED vars
       ELSE /\ corrected_line(lines[line_id], payload).counted_qty \in 0..MaxQty
            /\ requests' = requests @@
                    (r :> [route |-> "update_line", line_id |-> line_id,
                           line |-> corrected_line(lines[line_id], payload)])
            /\ UNCHANGED <<sessions, passes, lines, now, movements, inventory>>

\* db.session.commit() of update_line: the UPDATE of the Line, which writes no
\* row when the Line is gone
update_line_commit(r) ==
    /\ r \in DOMAIN requests
    /\ requests[r].route = "update_line"
    /\ lines' = IF requests[r].line_id \in DOMAIN lines
                THEN [lines EXCEPT ![requests[r].line_id].counted_qty = requests[r].line.counted_qty,
                                   ![requests[r].line_id].notes = requests[r].line.notes,
                                   ![requests[r].line_id].confidence = requests[r].line.confidence,
                                   ![requests[r].line_id].captured_at = requests[r].line.captured_at]
                ELSE lines
    /\ requests' = [q \in DOMAIN requests \ {r} |-> requests[q]]
    /\ UNCHANGED <<sessions, passes, now, movements, inventory>>

\* DELETE /lines/<line_id> up to its commit: the handler has read the Line and
\* its pass
delete_line_read(r, line_id) ==
    /\ r \notin DOMAIN requests
    /\ IF failed(delete_line_response(line_id))
       THEN UNCHANGED vars
       ELSE /\ requests' = requests @@ (r :> [route |-> "delete_line", line_id |-> line_id])
            /\ UNCHANGED <<sessions, passes, lines, now, movements, inventory>>

\* db.session.commit() of delete_line: the DELETE of the Line
delete_line_commit(r) ==
    /\ r \in DOMAIN requests
    /\ requests[r].route = "delete_line"
    /\ lines' = [l \in DOMAIN lines \ {requests[r].line_id} |-> lines[l]]
    /\ requests' = [q \in DOMAIN requests \ {r} |-> requests[q]]
    /\ UNCHANGED <<sessions, passes, now, movements, inventory>>

\* the wall clock advances between requests
Tick ==
    /\ now < MaxTime
    /\ now' = now + 1
    /\ UNCHANGED <<sessions, passes, lines, movements, inventory, requests>>

\* ---------------------------------------------------------------- variance
\* rows of seq that satisfy keep, in the order of seq
RECURSIVE select(_, _)
select(seq, keep) ==
    IF seq = <<>> THEN <<>>
    ELSE (IF seq[1] \in keep THEN <<seq[1]>> ELSE <<>>) \o select(Tail(seq), keep)

\* abs(x)
abs(x) == IF x < 0 THEN -x ELSE x

\* func.sum(...) over the rows keys of a column given as key -> value
RECURSIVE sum(_, _)
sum(column, keys) ==
    IF keys = {} THEN 0
    ELSE LET k == CHOOSE k \in keys : TRUE IN column[k] + sum(column, keys \ {k})

\* fault: every pass of the session that was ever submitted opens the window
submitted_passes_ever(session_id) ==
    {p \in DOMAIN passes : /\ passes[p].session_id = session_id
                           /\ passes[p].submitted_at # NONE}

\* InventoryCountPass.query.filter_by(session_id=session_id, status="submitted")
submitted_passes(session_id) ==
    {p \in DOMAIN passes : /\ passes[p].session_id = session_id
                           /\ passes[p].status = "submitted"}

\* fault: the Lines of every pass of the session are counted, whatever its status
counted_lines_any_status(session_id) ==
    {l \in DOMAIN lines : passes[lines[l].count_pass_id].session_id = session_id}

\* the Lines counted_query joins to a pass of the session whose status is submitted
counted_lines(session_id) ==
    {l \in DOMAIN lines : /\ passes[lines[l].count_pass_id].session_id = session_id
                          /\ passes[lines[l].count_pass_id].status = "submitted"}

\* counted_by_sku: sku -> sum of counted_qty, one entry per SKU the query groups
counted_by_sku(session_id) ==
    LET rows == counted_lines(session_id) IN
    [sku \in {lines[l].sku : l \in rows} |->
        sum([l \in rows |-> lines[l].counted_qty], {l \in rows : lines[l].sku = sku})]

\* row.current_quantity or 0
or_zero(quantity) == IF quantity = NONE THEN 0 ELSE quantity[1]

\* the rows baseline_query returns: Product joined to the InventoryItems of the store
baseline_rows(store_id) ==
    {[sku |-> row[1].sku, current_quantity |-> row[2].current_quantity] :
        row \in {join \in Products \X inventory : /\ join[2].product_id = join[1].id
                                                   /\ join[2].store_id = store_id}}

\* baseline_by_sku: sku -> current_quantity or 0 (the dict keeps one row per SKU)
baseline_by_sku(store_id) ==
    LET rows == baseline_rows(store_id) IN
    [sku \in {row.sku : row \in rows} |->
        or_zero((CHOOSE row \in rows : row.sku = sku).current_quantity)]

\* min(p.started_at for p in passes)
earliest_of(ps) ==
    CHOOSE t \in {passes[p].started_at : p \in ps} :
        \A p \in ps : t <= passes[p].started_at

\* fault: the window ends where the first submitted pass ended
latest_of_first(ps) ==
    CHOOSE t \in {passes[p].submitted_at[1] : p \in {q \in ps : passes[q].submitted_at # NONE}} :
        \A p \in ps : passes[p].submitted_at # NONE => t <= passes[p].submitted_at[1]

\* max(p.submitted_at for p in passes if p.submitted_at)
latest_of(ps) ==
    CHOOSE t \in {passes[p].submitted_at[1] : p \in {q \in ps : passes[q].submitted_at # NONE}} :
        \A p \in ps : passes[p].submitted_at # NONE => t >= passes[p].submitted_at[1]

\* movement_deltas: sku -> sum of qty_delta over the Movements of the store in
\* [earliest, latest]; empty when the session has no submitted pass
movement_deltas(session_id) ==
    LET ps == submitted_passes(session_id)
        rows == {i \in DOMAIN movements :
                    /\ movements[i].store_id = sessions[session_id].store_id
                    /\ movements[i].occurred_at >= earliest_of(ps)
                    /\ movements[i].occurred_at <= latest_of(ps)}
    IN  IF ps = {} THEN <<>>
        ELSE [sku \in {movements[i].sku : i \in rows} |->
                sum([i \in rows |-> movements[i].qty_delta],
                    {i \in rows : movements[i].sku = sku})]

\* request.args.get("non_zero_only", "").lower() in ("true", "1", "yes")
non_zero_only(args) == lower(get(args, "non_zero_only", "")) \in {"true", "1", "yes"}

\* sorted(all_skus): the SKUs in the order of Python's str comparison
sorted(skus) == select(<<"A", "A2", "B", "C", "X">>, skus)

\* product_info.get(sku): a Product row of the SKU, or None
product_info(sku) ==
    IF \E pr \in Products : pr.sku = sku
    THEN CHOOSE pr \in Products : pr.sku = sku
    ELSE NoProduct

\* fault: the movements are subtracted from the baseline
expected_less(baseline, movement) == baseline - movement

\* expected = baseline + movement
expected(baseline, movement) == baseline + movement

\* the dict get_variance appends for a SKU
variance_item(sku, counted, baseline, movement) ==
    [sku |-> sku,
     category |-> product_info(sku).category,
     subcategory |-> product_info(sku).subcategory,
     counted_qty |-> counted,
     baseline_qty |-> baseline,
     movement_delta |-> movement,
     expected_qty |-> expected(baseline, movement),
     variance |-> counted - expected(baseline, movement)]

\* fault: the filter is never applied
skipped_never(only_non_zero, variance) == FALSE

\* "if non_zero_only and variance == 0: continue"
skipped(only_non_zero, variance) == only_non_zero /\ variance = 0

\* "for sku in sorted(all_skus)": the results list before it is sorted
RECURSIVE results(_, _, _, _, _)
results(skus, counted, baseline, deltas, only_non_zero) ==
    IF skus = <<>> THEN <<>>
    ELSE LET item == variance_item(skus[1], get(counted, skus[1], 0),
                                   get(baseline, skus[1], 0), get(deltas, skus[1], 0))
         IN (IF skipped(only_non_zero, item.variance) THEN <<>> ELSE <<item>>)
                \o results(Tail(skus), counted, baseline, deltas, only_non_zero)

\* fault: the results are returned in SKU order
sort_skipped(items) == items

\* results.sort(key=lambda x: abs(x["variance"]), reverse=True): a stable sort,
\* so items of equal key keep the order they had
RECURSIVE sort(_)
sort(items) ==
    IF items = <<>> THEN <<>>
    ELSE LET i == CHOOSE i \in DOMAIN items :
                    /\ \A j \in DOMAIN items : abs(items[i].variance) >= abs(items[j].variance)
                    /\ \A j \in 1..(i - 1) : abs(items[j].variance) < abs(items[i].variance)
         IN <<items[i]>> \o sort(SubSeq(items, 1, i - 1) \o SubSeq(items, i + 1, Len(items)))

\* fault: a SKU that only has movements is reported too
all_skus_moved(counted, baseline, deltas) ==
    DOMAIN counted \cup DOMAIN baseline \cup DOMAIN deltas

\* all_skus = set(counted_by_sku.keys()) | set(baseline_by_sku.keys())
all_skus(counted, baseline, deltas) == DOMAIN counted \cup DOMAIN baseline

\* fault: the variances are added with their signs
total_variance_signed(items) ==
    sum([i \in DOMAIN items |-> items[i].variance], DOMAIN items)

\* sum(abs(r["variance"]) for r in results)
total_variance(items) ==
    sum([i \in DOMAIN items |-> abs(items[i].variance)], DOMAIN items)

\* GET /sessions/<session_id>/variance: what it returns
get_variance_response(session_id, args) ==
    IF session_id \notin DOMAIN sessions THEN error(404, NotFound)      \* "Session not found"
    ELSE LET counted == counted_by_sku(session_id)
             baseline == baseline_by_sku(sessions[session_id].store_id)
             deltas == movement_deltas(session_id)
             items == sort(results(sorted(all_skus(counted, baseline, deltas)),
                                   counted, baseline, deltas, non_zero_only(args)))
         IN [code |-> 200,
             body |-> [error |-> NULL,
                       session_id |-> session_id,
                       store_id |-> sessions[session_id].store_id,
                       status |-> sessions[session_id].status,
                       total_skus |-> Len(items),
                       total_variance |-> total_variance(items),
                       items |-> items]]

\* fault: the report drops the Movements it has read from the ledger
get_variance_purging(session_id, args) ==
    /\ movements' = <<>>
    /\ UNCHANGED <<sessions, passes, lines, now, inventory, requests>>

\* GET /sessions/<session_id>/variance: the handler reads and commits nothing
get_variance(session_id, args) == UNCHANGED vars

\* -------------------------------------------------------------- sales sync
\* instants of the clock per calendar day: an instant t lies on day t \div TimesPerDay
TimesPerDay == 2

\* db.func.date(occurred_at), and date.today() at the instant t
date(t) == t \div TimesPerDay

\* datetime.combine(sale.transaction_date, sale.transaction_time or datetime.min.time())
combine(transaction_date, transaction_time) ==
    transaction_date * TimesPerDay + (IF transaction_time = NONE THEN 0 ELSE transaction_time[1])

\* STORE_ID_MAP: Cova store id -> IKE store id
STORE_ID_MAP ==
    [cova_id \in {"kingsway", "Kingsway", "1", "fraser", "Fraser", "2"} |->
        IF cova_id \in {"kingsway", "Kingsway", "1"} THEN 1 ELSE 2]

\* str(ike_store_id)
str(n) == CASE n = 1 -> "1" [] n = 2 -> "2" [] n = 3 -> "3" [] OTHER -> "?"

\* _get_cova_store_ids: the reverse lookup, or [str(ike_store_id)]
get_cova_store_ids(ike_store_id) ==
    LET cova_ids == {c \in DOMAIN STORE_ID_MAP : STORE_ID_MAP[c] = ike_store_id}
    IN IF cova_ids # {} THEN cova_ids ELSE {str(ike_store_id)}

\* f"{sale.transaction_id}:{sale.line_number}"
format_ref(transaction_id, line_number) ==
    CASE transaction_id = "T1" /\ line_number = 1 -> "T1:1"
      [] transaction_id = "T1" /\ line_number = 2 -> "T1:2"
      [] transaction_id = "T2" /\ line_number = 1 -> "T2:1"
      [] transaction_id = "T2" /\ line_number = 2 -> "T2:2"
      [] OTHER -> "?:?"

\* fault: the sold quantity is stored with the sign the feed gave it
qty_delta_as_given(quantity) == quantity

\* qty_delta=-abs(sale.quantity)
qty_delta(quantity) == -abs(quantity)

\* the InventoryMovement _sale_to_movement builds for a sale row and the product
\* row its lookup returned
movement_of(sale, store_id, product_id) ==
    [store_id |-> store_id,
     product_id |-> product_id,
     sku |-> sale.product_sku,
     movement_type |-> "sale",
     qty_delta |-> qty_delta(sale.quantity),
     occurred_at |-> combine(sale.transaction_date, sale.transaction_time),
     source |-> "cova_sync",
     source_ref |-> format_ref(sale.transaction_id, sale.line_number)]

\* fault: a Movement is built whether or not the product lookup found a row
sale_to_movement_any(sale, store_id, product_id) ==
    Some(movement_of(sale, store_id, product_id))

\* _sale_to_movement: None for a row without SKU or without product, product_id
\* being what Product.query...first() returned
sale_to_movement(sale, store_id, product_id) ==
    IF sale.product_sku = NULL \/ sale.product_sku = "" THEN NONE
    ELSE IF product_id = NoRow THEN NONE
    ELSE Some(movement_of(sale, store_id, product_id))

\* the position an ORDER BY transaction_date, transaction_time gives a row: rows
\* with a NULL time sort first within their day
sale_order(sale) ==
    sale.transaction_date * (TimesPerDay + 1)
        + (IF sale.transaction_time = NONE THEN 0 ELSE sale.transaction_time[1] + 1)

\* seq ordered by sale_order, rows of equal order in the order of seq
RECURSIVE order_by(_)
order_by(seq) ==
    IF seq = <<>> THEN <<>>
    ELSE LET i == CHOOSE i \in DOMAIN seq :
                    /\ \A j \in DOMAIN seq : sale_order(seq[i]) <= sale_order(seq[j])
                    /\ \A j \in 1..(i - 1) : sale_order(seq[j]) > sale_order(seq[i])
         IN <<seq[i]>> \o order_by(SubSeq(seq, 1, i - 1) \o SubSeq(seq, i + 1, Len(seq)))

\* the sales query: the rows of cova_sales of the store's Cova ids whose
\* transaction_date is BETWEEN from_date AND to_date, ordered by date and time
sales_query(cova_sales, store_id, from_date, to_date) ==
    order_by(select(cova_sales,
        {sale \in {cova_sales[i] : i \in DOMAIN cova_sales} :
            /\ sale.transaction_date >= from_date
            /\ sale.transaction_date <= to_date
            /\ sale.cova_store_id \in get_cova_store_ids(store_id)}))

\* the stats dict a sync run starts with
new_stats(store_id, from_date, to_date) ==
    [from_date |-> from_date, to_date |-> to_date, store_id |-> store_id,
     sales_found |-> 0, movements_created |-> 0, movements_skipped |-> 0,
     movements_deleted |-> NONE, products_not_found |-> <<>>, errors |-> <<>>]

\* InventoryMovement.query.filter_by(store_id=..., sku=..., source_ref=...): the
\* rows of the ledger, pending inserts of the run included
existing_movement(ledger, store_id, movement) ==
    {i \in DOMAIN ledger : /\ ledger[i].store_id = store_id
                           /\ ledger[i].sku = movement.sku
                           /\ ledger[i].source_ref = movement.source_ref}

\* fault: the delete of a force_resync run takes every Movement of the store
resync_deletes_store(ledger, store_id, from_date, to_date) ==
    {m \in {ledger[i] : i \in DOMAIN ledger} : m.store_id = store_id}

\* the rows the delete of a force_resync run removes: cova_sync rows of the store
\* whose occurred_at date lies in [from_date, to_date]
resync_deletes(ledger, store_id, from_date, to_date) ==
    {m \in {ledger[i] : i \in DOMAIN ledger} :
        /\ m.store_id = store_id
        /\ date(m.occurred_at) >= from_date
        /\ date(m.occurred_at) <= to_date
        /\ m.source = "cova_sync"}

\* fault: the run inserts without looking for the Movement in the ledger
skip_existing_never(existing, force_resync) == FALSE

\* "if existing and not force_resync": the sale is already synced and is skipped
skip_existing(existing, force_resync) == existing # {} /\ ~force_resync

\* _sale_to_movement raises: abs(sale.quantity) of a row whose quantity is NULL
\* (a row that carries no quantity), reached once the row has a SKU and its
\* product was found
raises(sale, product_id) ==
    /\ sale.product_sku # NULL /\ sale.product_sku # ""
    /\ product_id # NoRow
    /\ "quantity" \notin DOMAIN sale

\* fault: a row that raised is counted as skipped as well
sync_sale_error_skipped(run, sale, store_id, force_resync, product_id) ==
    LET movement == sale_to_movement(sale, store_id, product_id) IN
    IF raises(sale, product_id)
    THEN [run EXCEPT !.stats.errors = Append(@, "TypeError"),
                     !.stats.movements_skipped = @ + 1]
    ELSE IF movement # NONE
    THEN IF skip_existing(existing_movement(run.ledger, store_id, movement[1]), force_resync)
         THEN [run EXCEPT !.stats.movements_skipped = @ + 1]
         ELSE [run EXCEPT !.ledger = Append(@, movement[1]),
                          !.stats.movements_created = @ + 1]
    ELSE [run EXCEPT
            !.stats.products_not_found =
                IF /\ sale.product_sku # NULL /\ sale.product_sku # ""
                   /\ \A i \in DOMAIN @ : @[i] # sale.product_sku
                THEN Append(@, sale.product_sku) ELSE @,
            !.stats.movements_skipped = @ + 1]

\* one pass of the loop over the sales: run is the ledger and the stats so far,
\* product_id what the product lookup of _sale_to_movement returned; a row that
\* raised is caught by the loop and leaves its message in errors
sync_sale(run, sale, store_id, force_resync, product_id) ==
    LET movement == sale_to_movement(sale, store_id, product_id) IN
    IF raises(sale, product_id)
    THEN [run EXCEPT !.stats.errors = Append(@, "TypeError")]
    ELSE IF movement # NONE
    THEN IF skip_existing(existing_movement(run.ledger, store_id, movement[1]), force_resync)
         THEN [run EXCEPT !.stats.movements_skipped = @ + 1]
         ELSE [run EXCEPT !.ledger = Append(@, movement[1]),
                          !.stats.movements_created = @ + 1]
    ELSE [run EXCEPT
            !.stats.products_not_found =
                IF /\ sale.product_sku # NULL /\ sale.product_sku # ""
                   /\ \A i \in DOMAIN @ : @[i] # sale.product_sku
                THEN Append(@, sale.product_sku) ELSE @,
            !.stats.movements_skipped = @ + 1]

\* "for sale in sales": resolve gives, per SKU, the row its product lookup returns
RECURSIVE sync_sales(_, _, _, _, _)
sync_sales(run, sales, store_id, force_resync, resolve) ==
    IF sales = <<>> THEN run
    ELSE sync_sales(
            sync_sale(run, sales[1], store_id, force_resync, resolve[sales[1].product_sku]),
            Tail(sales), store_id, force_resync, resolve)

\* what Product.query.filter(...).first() may return for each SKU of the feed
resolutions(cova_sales) ==
    LET skus == {cova_sales[i].product_sku : i \in DOMAIN cova_sales} IN
    {resolve \in [skus -> {NoRow} \cup {pr.id : pr \in Products}] :
        \A sku \in skus : resolve[sku] \in first({pr.id : pr \in find_product(sku)})}

\* from_date / to_date of a run: yesterday / today when the caller gives none
from_date_of(from_date) == IF from_date = NONE THEN date(now) - 1 ELSE from_date[1]
to_date_of(to_date) == IF to_date = NONE THEN date(now) ELSE to_date[1]

\* sync_sales_to_movements up to its commit: the ledger and the stats of a run
\* over the ledger given, without a fatal error
sync_run(ledger, cova_sales, store_id, from_date, to_date, force_resync, resolve) ==
    LET from == from_date_of(from_date)
        to == to_date_of(to_date)
        sales == sales_query(cova_sales, store_id, from, to)
        deleted == IF force_resync THEN resync_deletes(ledger, store_id, from, to) ELSE {}
        kept == select(ledger, {ledger[i] : i \in DOMAIN ledger} \ deleted)
        stats == [new_stats(store_id, from, to) EXCEPT
                    !.sales_found = Len(sales),
                    !.movements_deleted =
                        IF force_resync THEN Some(Len(ledger) - Len(kept)) ELSE NONE]
    IN sync_sales([ledger |-> kept, stats |-> stats], sales, store_id, force_resync, resolve)

\* what sync_sales_to_movements returns: the stats of the run, or of the run cut
\* short by a fatal error of the sales query or of the commit
sync_response(ledger, cova_sales, store_id, from_date, to_date, force_resync, resolve, fatal) ==
    LET run == sync_run(ledger, cova_sales, store_id, from_date, to_date, force_resync, resolve)
    IN  IF fatal = "query"
        THEN [new_stats(store_id, from_date_of(from_date), to_date_of(to_date))
                EXCEPT !.errors = <<"Sync failed">>]
        ELSE IF fatal = "commit"
        THEN [run.stats EXCEPT !.errors = Append(@, "Sync failed")]
        ELSE run.stats

\* fault: a fatal error leaves the deletes and inserts of the run in the ledger
committed_despite(ledger, run, fatal) == run.ledger

\* db.session.commit(), or db.session.rollback() after a fatal error: the ledger
\* the call leaves, run being the ledger and stats before the commit
committed(ledger, run, fatal) == IF fatal # "none" THEN ledger ELSE run.ledger

\* SalesSyncService.sync_sales_to_movements: commits the run, or rolls back on a
\* fatal error
sync_sales_to_movements(store_id, from_date, to_date, force_resync, cova_sales, fatal) ==
    \E resolve \in resolutions(cova_sales) :
        LET run == sync_run(movements, cova_sales, store_id, from_date, to_date,
                            force_resync, resolve)
        IN  /\ Len(run.ledger) <= MaxMovements
            /\ movements' = committed(movements, run, fatal)
            /\ UNCHANGED <<sessions, passes, lines, now, inventory, requests>>

\* a run without force_resync served as request r, up to its loop: it has read
\* the sales of its date range and holds them with the stats and no insert yet
sync_begin(r, store_id, from_date, to_date, cova_sales) ==
    /\ r \notin DOMAIN requests
    /\ \E resolve \in resolutions(cova_sales) :
        LET from == from_date_of(from_date)
            to == to_date_of(to_date)
            sales == sales_query(cova_sales, store_id, from, to)
        IN requests' = requests @@
                (r :> [route |-> "sync", store_id |-> store_id, sales |-> sales, resolve |-> resolve,
                       pending |-> <<>>,
                       stats |-> [new_stats(store_id, from, to) EXCEPT !.sales_found = Len(sales)]])
    /\ UNCHANGED <<sessions, passes, lines, now, movements, inventory>>

\* one pass of the loop of request r: the lookup of the existing Movement sees
\* the committed ledger and the inserts of its own session, not those another
\* run has not committed
sync_step(r) ==
    /\ r \in DOMAIN requests
    /\ requests[r].route = "sync"
    /\ requests[r].sales # <<>>
    /\ LET sale == Head(requests[r].sales)
           run == sync_sale([ledger |-> movements \o requests[r].pending,
                             stats |-> requests[r].stats],
                            sale, requests[r].store_id, FALSE,
                            requests[r].resolve[sale.product_sku])
       IN requests' = [requests EXCEPT
                          ![r].sales = Tail(@),
                          ![r].pending = SubSeq(run.ledger, Len(movements) + 1, Len(run.ledger)),
                          ![r].stats = run.stats]
    /\ UNCHANGED <<sessions, passes, lines, now, movements, inventory>>

\* db.session.commit() of request r at the end of its loop
sync_commit(r) ==
    /\ r \in DOMAIN requests
    /\ requests[r].route = "sync"
    /\ requests[r].sales = <<>>
    /\ Len(movements) + Len(requests[r].pending) <= MaxMovements
    /\ movements' = movements \o requests[r].pending
    /\ requests' = [q \in DOMAIN requests \ {r} |-> requests[q]]
    /\ UNCHANGED <<sessions, passes, lines, now, inventory>>

\* ------------------------------------------------------------------ inputs
\* request bodies of POST /sessions
SessionPayloads == {<<>>, [store_id |-> 1], [store_id |-> 3]}

\* request bodies of POST /sessions/<id>/passes
PassPayloads ==
    { <<>>,
      [location_id |-> 1],
      [location_id |-> 2],
      [location_id |-> 3] }

\* request bodies of POST /passes/<id>/lines
LinePayloads ==
    { [notes |-> " "],
      [barcode |-> "A"],
      [barcode |-> " A2 ", counted_qty |-> 2],
      [barcode |-> "B"],
      [barcode |-> "X"] }

\* request bodies of PUT /lines/<id>
CorrectionPayloads == { <<>>, [counted_qty |-> 0], [counted_qty |-> 2] }

\* request arguments of GET /sessions/<id>/variance
QueryArgs == { <<>>, [non_zero_only |-> "True"], [non_zero_only |-> "no"] }

Next ==
    \/ \E payload \in SessionPayloads : create_session(payload)
    \/ \E s \in SessionIds : start_session(s)
    \/ \E s \in SessionIds : submit_session(s)
    \/ \E s \in SessionIds, payload \in PassPayloads : create_pass(s, payload)
    \/ \E p \in PassIds : submit_pass(p)
    \/ \E p \in PassIds : void_pass(p)
    \/ \E p \in PassIds, payload \in LinePayloads : add_line(p, payload)
    \/ \E l \in LineIds, payload \in CorrectionPayloads : update_line(l, payload)
    \/ \E l \in LineIds : delete_line(l)
    \/ \E s \in SessionIds, args \in QueryArgs : get_variance(s, args)
    \/ Tick

Spec == Init /\ [][Next]_vars

\* ------------------------------------------------------------ scoped passes
\* request bodies of POST /sessions/<id>/passes that carry a counting scope
ScopedPassPayloads ==
    { [location_id |-> 1, category |-> " "],
      [location_id |-> 1, category |-> " flower "],
      [location_id |-> 1, subcategory |-> "Gummies"],
      [location_id |-> 1, category |-> "Edibles", subcategory |-> "Gummies"] }

\* request bodies of POST /passes/<id>/lines, one barcode per product and one unknown
ScopedLinePayloads ==
    { [barcode |-> "A"], [barcode |-> "B", counted_qty |-> 2], [barcode |-> "C"],
      [barcode |-> "X"] }

\* the count routes on passes that carry a scope
ScopeNext ==
    \/ \E payload \in {[store_id |-> 1]} : create_session(payload)
    \/ \E s \in SessionIds, payload \in ScopedPassPayloads : create_pass(s, payload)
    \/ \E p \in PassIds, payload \in ScopedLinePayloads : add_line(p, payload)
    \/ \E l \in LineIds, payload \in {[counted_qty |-> 0]} : update_line(l, payload)
    \/ \E l \in LineIds : delete_line(l)
    \/ \E p \in PassIds : submit_pass(p)
    \/ \E p \in PassIds : void_pass(p)

ScopeSpec == Init /\ [][ScopeNext]_vars

\* --------------------------------------------------------------- sale feeds
\* rows of cova_sales: a sale, a return booked under the alternate SKU without a
\* time, a sale of an unknown SKU, and a sale of the other store
Sale1 == [transaction_id |-> "T1", line_number |-> 1, cova_store_id |-> "kingsway",
          transaction_date |-> 0, transaction_time |-> Some(1),
          product_sku |-> "A", quantity |-> 1]
Sale2 == [transaction_id |-> "T1", line_number |-> 2, cova_store_id |-> "Kingsway",
          transaction_date |-> 0, transaction_time |-> NONE,
          product_sku |-> "A2", quantity |-> -2]
Sale3 == [transaction_id |-> "T2", line_number |-> 1, cova_store_id |-> "1",
          transaction_date |-> -1, transaction_time |-> Some(0),
          product_sku |-> "X", quantity |-> 1]
Sale4 == [transaction_id |-> "T2", line_number |-> 2, cova_store_id |-> "fraser",
          transaction_date |-> 0, transaction_time |-> Some(0),
          product_sku |-> "B", quantity |-> 1]

\* contents of cova_sales at the time of a run: the export as first loaded, loaded
\* twice, with a later day's rows, with the date of a sale changed, and with a
\* second row of the unknown SKU after the sale
SaleFeeds ==
    { <<Sale1, Sale2>>,
      <<Sale3, Sale4, Sale1>>,
      <<Sale3, Sale1, [Sale3 EXCEPT !.line_number = 2, !.transaction_date = 0,
                                    !.transaction_time = Some(1)]>>,
      <<Sale1, Sale1>>,
      <<[Sale1 EXCEPT !.transaction_date = 1], Sale2>>,
      <<[Sale4 EXCEPT !.product_sku = NULL], [Sale1 EXCEPT !.transaction_date = 1]>> }

\* the date ranges of the runs: the default (yesterday, today) and explicit days
SyncRanges == { <<NONE, NONE>>, <<Some(0), Some(0)>>, <<Some(0), Some(1)>>, <<Some(1), Some(1)>> }

\* the sync service, called for the two stores, and the clock
SyncNext ==
    \/ \E store_id \in Stores, range \in SyncRanges, force_resync \in BOOLEAN,
          cova_sales \in SaleFeeds, fatal \in {"none", "query", "commit"} :
            sync_sales_to_movements(store_id, range[1], range[2], force_resync,
                                    cova_sales, fatal)
    \/ Tick

SyncSpec == Init /\ [][SyncNext]_vars
\* ------------------------------------------------------- counted databases
\* the instants at which the rows of a counted database were written
Instants == 0..MaxInstant

\* a pass row as create_pass at the instant started, and then submit_pass or
\* void_pass or both, the submit at the instant ended, leave it
pass_rows(session_id) ==
    { [new_pass(session_id, [location_id |-> 1]) EXCEPT
            !.started_at = window[1],
            !.submitted_at = IF outcome[2] THEN Some(window[2]) ELSE NONE,
            !.status = outcome[1]] :
        window \in {w \in Instants \X Instants : w[1] <= w[2]},
        outcome \in { <<"in_progress", FALSE>>, <<"submitted", TRUE>>,
                      <<"voided", FALSE>>, <<"voided", TRUE>> } }

\* a Line as add_line leaves it when the pass was opened
line_row(pass_id, barcode, counted_qty) ==
    [new_line(pass_id, CHOOSE pr \in find_product(barcode) : TRUE,
              [barcode |-> barcode, counted_qty |-> counted_qty])
        EXCEPT !.captured_at = passes[pass_id].started_at]

\* contents of inventory_items: none; a stocked, an empty and another store's
\* row; a row without quantity and a stocked one
Inventories ==
    { {},
      { [store_id |-> 1, product_id |-> 1, current_quantity |-> Some(2)],
        [store_id |-> 1, product_id |-> 3, current_quantity |-> Some(0)],
        [store_id |-> 2, product_id |-> 1, current_quantity |-> Some(5)] },
      { [store_id |-> 1, product_id |-> 1, current_quantity |-> NONE],
        [store_id |-> 1, product_id |-> 2, current_quantity |-> Some(1)] } }

\* a row of cova_sales moved to the instant t
sale_at(sale, t) ==
    [sale EXCEPT !.transaction_date = date(t), !.transaction_time = Some(t % TimesPerDay)]

\* contents of cova_sales: no sale; one sale of A; two sales of A; and at one
\* instant a sale of the other store, one of B and one under the alternate SKU
CountedFeeds ==
    {<<>>}
    \cup {<<sale_at(Sale1, t)>> : t \in Instants}
    \cup {<<sale_at(Sale1, w[1]), sale_at([Sale2 EXCEPT !.product_sku = "A"], w[2])>> :
            w \in {v \in Instants \X Instants : v[1] < v[2]}}
    \cup {<<sale_at(Sale4, 1), sale_at([Sale4 EXCEPT !.cova_store_id = "kingsway"], 1),
            sale_at(Sale2, 1)>>}

\* the ledger after a sync of each store over cova_sales
synced(cova_sales) ==
    LET resolve == CHOOSE r \in resolutions(cova_sales) : TRUE
        to == Some(date(MaxInstant))
    IN sync_run(sync_run(<<>>, cova_sales, 1, Some(0), to, FALSE, resolve).ledger,
                cova_sales, 2, Some(0), to, FALSE, resolve).ledger

\* a database after a count: two started sessions of store 1; pass 1 of session 1
\* in any state of its lifecycle; pass 2 likewise, or a pass of session 2 opened
\* at instant 0; a Line of A on pass 1 and a Line of A or B on pass 2; and the
\* ledger of synced sales
CountedInit ==
    /\ now = MaxInstant
    /\ \E cova_sales \in CountedFeeds : movements = synced(cova_sales)
    /\ sessions = [s \in {1, 2} |-> [new_session(1) EXCEPT !.status = "in_progress"]]
    /\ inventory \in Inventories
    /\ requests = <<>>
    /\ \E row1 \in pass_rows(1),
          row2 \in pass_rows(1) \cup
                   {row \in pass_rows(2) : row.started_at = 0 /\ row.submitted_at # Some(0)} :
          passes = (1 :> row1) @@ (2 :> row2)
    /\ \E qty1 \in {0, 1}, barcode2 \in {"A2", "B"} :
          lines = (1 :> line_row(1, "A", qty1)) @@ (2 :> line_row(2, barcode2, MaxQty))

\* the variance route, asked for each session and for one that does not exist
VarianceNext ==
    \E session_id \in {1, 2, 3}, args \in QueryArgs : get_variance(session_id, args)

VarianceSpec == CountedInit /\ [][VarianceNext]_vars

\* ------------------------------------------------------ counts over a ledger
\* Movements entered by hand and imported, as the ledger holds them beside the
\* synced sales
Manual1 == [store_id |-> 1, product_id |-> 1, sku |-> "A", movement_type |-> "adjustment",
            qty_delta |-> 2, occurred_at |-> 0, source |-> "manual", source_ref |-> NULL]
Import1 == [store_id |-> 1, product_id |-> 2, sku |-> "B", movement_type |-> "transfer_in",
            qty_delta |-> 3, occurred_at |-> 1, source |-> "import", source_ref |-> "R1"]

\* a database before any count, its ledger holding a manual Movement and an
\* imported one, or a manual one and the synced sale of the other store
LedgerInit ==
    /\ sessions = <<>>
    /\ passes = <<>>
    /\ lines = <<>>
    /\ now = 0
    /\ movements \in {<<Manual1, Import1>>, <<Manual1, movement_of(Sale4, 2, 2)>>}
    /\ inventory = {}
    /\ requests = <<>>

\* the feeds and date ranges of the runs over that ledger
LedgerFeeds == { <<Sale1, Sale2>>, <<[Sale1 EXCEPT !.transaction_date = 1], Sale2>> }
LedgerRanges == { <<Some(0), Some(0)>>, <<Some(1), Some(1)>> }

\* every count route, and the sync service called for store 1
LedgerNext ==
    \/ \E payload \in {[store_id |-> 1]} : create_session(payload)
    \/ \E s \in SessionIds : start_session(s)
    \/ \E s \in SessionIds : submit_session(s)
    \/ \E s \in SessionIds, payload \in {[location_id |-> 1]} : create_pass(s, payload)
    \/ \E p \in PassIds : submit_pass(p)
    \/ \E p \in PassIds : void_pass(p)
    \/ \E p \in PassIds, payload \in {[barcode |-> "A"]} : add_line(p, payload)
    \/ \E l \in LineIds, payload \in {[counted_qty |-> 2]} : update_line(l, payload)
    \/ \E l \in LineIds : delete_line(l)
    \/ \E s \in SessionIds, args \in QueryArgs : get_variance(s, args)
    \/ \E store_id \in {1}, range \in LedgerRanges, force_resync \in BOOLEAN,
          cova_sales \in LedgerFeeds, fatal \in {"none", "commit"} :
            sync_sales_to_movements(store_id, range[1], range[2], force_resync,
                                    cova_sales, fatal)

LedgerSpec == LedgerInit /\ [][LedgerNext]_vars

\* ------------------------------------------------------- concurrent records
\* the record requests two devices send while they count the same pass
RacePayloads == { [barcode |-> "A"], [barcode |-> " A2 ", counted_qty |-> 2], [barcode |-> "B"] }

\* a session with its passes, and record requests whose handlers run at the
\* same time, each reading and then committing
RaceNext ==
    \/ \E payload \in {[store_id |-> 1]} : create_session(payload)
    \/ \E s \in SessionIds, payload \in {[location_id |-> 1]} : create_pass(s, payload)
    \/ \E r \in RequestIds, p \in PassIds, payload \in RacePayloads : add_line_read(r, p, payload)
    \/ \E r \in RequestIds : add_line_commit(r)
    \/ \E l \in LineIds : delete_line(l)

RaceSpec == Init /\ [][RaceNext]_vars

\* --------------------------------------------------------- concurrent syncs
\* the feeds and the overlapping date ranges of runs served at the same time
SyncRaceFeeds == { <<Sale1, Sale2>>, <<Sale3, Sale4, Sale1>> }
SyncRaceRanges == { <<Some(0), Some(0)>>, <<Some(0), Some(1)>>, <<NONE, NONE>> }

\* runs without force_resync for store 1, their loops interleaved, each
\* committing at its end
SyncRaceNext ==
    \/ \E r \in RequestIds, range \in SyncRaceRanges, cova_sales \in SyncRaceFeeds :
            sync_begin(r, 1, range[1], range[2], cova_sales)
    \/ \E r \in RequestIds : sync_step(r)
    \/ \E r \in RequestIds : sync_commit(r)

SyncRaceSpec == Init /\ [][SyncRaceNext]_vars

\* ------------------------------------------------- concurrent count requests
\* a session whose requests are served at the same time: each handler reads,
\* then commits, and the handlers of two requests interleave
CountRaceNext ==
    \/ \E payload \in {[store_id |-> 1]} : create_session(payload)
    \/ \E r \in RequestIds, s \in SessionIds, payload \in {[location_id |-> 1]} :
            create_pass_read(r, s, payload)
    \/ \E r \in RequestIds : create_pass_commit(r)
    \/ \E r \in RequestIds, s \in SessionIds : submit_session_read(r, s)
    \/ \E r \in RequestIds : submit_session_commit(r)
    \/ \E p \in PassIds : submit_pass(p)
    \/ \E p \in PassIds : void_pass(p)
    \/ \E r \in RequestIds, p \in PassIds, payload \in {[barcode |-> "A"]} :
            add_line_read(r, p, payload)
    \/ \E r \in RequestIds : add_line_commit(r)
    \/ \E r \in RequestIds, l \in LineIds, payload \in {[counted_qty |-> 2]} :
            update_line_read(r, l, payload)
    \/ \E r \in RequestIds : update_line_commit(r)
    \/ \E r \in RequestIds, l \in LineIds : delete_line_read(r, l)
    \/ \E r \in RequestIds : delete_line_commit(r)

CountRaceSpec == Init /\ [][CountRaceNext]_vars

\* ------------------------------------------------------- repeated records
\* request bodies of POST /passes/<id>/lines that scan one product again, by
\* either code, with and without notes, package and confidence
RecordPayloads ==
    { [barcode |-> "A", package_id |-> "PK1", confidence |-> "manual", notes |-> "first"],
      [barcode |-> " A2 ", counted_qty |-> 2, package_id |-> "PK2",
       confidence |-> "estimated", notes |-> " "],
      [barcode |-> "A", notes |-> "second"],
      [barcode |-> "A"] }

\* a pass whose Lines are recorded again and corrected as the clock advances
RecordNext ==
    \/ \E payload \in {[store_id |-> 1]} : create_session(payload)
    \/ \E s \in SessionIds, payload \in {[location_id |-> 1]} : create_pass(s, payload)
    \/ \E p \in PassIds, payload \in RecordPayloads : add_line(p, payload)
    \/ \E l \in LineIds, payload \in {[counted_qty |-> 1]} : update_line(l, payload)
    \/ \E l \in LineIds : delete_line(l)
    \/ Tick

RecordSpec == Init /\ [][RecordNext]_vars

\* ---------------------------------------------------------- rows that raise
\* the row of a sale with its quantity NULL
no_quantity(sale) ==
    [transaction_id |-> sale.transaction_id, line_number |-> sale.line_number,
     cova_store_id |-> sale.cova_store_id, transaction_date |-> sale.transaction_date,
     transaction_time |-> sale.transaction_time, product_sku |-> sale.product_sku]

\* contents of cova_sales: the feeds of the runs above, and feeds with a row
\* whose quantity is NULL, of the product under its alternate SKU, of an unknown
\* SKU, and of a sale that the feed also holds with its quantity
TallyFeeds ==
    SaleFeeds \cup
    { <<Sale1, no_quantity(Sale2), Sale3>>,
      <<Sale1, Sale2, no_quantity([Sale3 EXCEPT !.transaction_date = 0])>>,
      <<no_quantity(Sale1), Sale1, Sale2>> }

\* the date ranges of the runs over these feeds
TallyRanges == SyncRanges

\* the sync service over feeds with rows that raise, and the clock
TallyNext ==
    \/ \E store_id \in Stores, range \in TallyRanges, force_resync \in BOOLEAN,
          cova_sales \in TallyFeeds, fatal \in {"none", "commit"} :
            sync_sales_to_movements(store_id, range[1], range[2], force_resync,
                                    cova_sales, fatal)
    \/ Tick

TallySpec == Init /\ [][TallyNext]_vars

\* ------------------------------------------------------------ properties
\* the Lines of a pass, by primary key
lines_of(pass_id) ==
    [l \in {k \in DOMAIN lines : lines[k].count_pass_id = pass_id} |-> lines[l]]

\* the passes of a session
passes_of(session_id) == {p \in DOMAIN passes : passes[p].session_id = session_id}

\* C1: in every reachable state each pass holds at most one Line per SKU, so a
\* record of a SKU that already has a Line in the pass never adds a second one.
C1_OneLinePerPassSku ==
    \A l1 \in DOMAIN lines, l2 \in DOMAIN lines :
        (lines[l1].count_pass_id = lines[l2].count_pass_id /\ lines[l1].sku = lines[l2].sku)
            => l1 = l2

\* C1 witness: a Line first scanned as "A" holds 3 units without any correction,
\* so later records of the same SKU were merged into it.
C1_Witness ==
    \E l \in DOMAIN lines :
        /\ lines[l].barcode = "A" /\ lines[l].confidence = "scanned"
        /\ lines[l].counted_qty = 3
        /\ passes[lines[l].count_pass_id].status = "in_progress"

\* C2: a successful record of quantity q (1 when the request carries none) on a
\* SKU that has a Line in the pass keeps the set of Lines, adds q to that Line's
\* counted_qty and reports incremented = true with previous_qty = the quantity
\* before the step; on a SKU without a Line it adds one Line with counted_qty = q
\* and reports incremented = false.  Step by step, n records sum up.
C2_RecordAdds ==
    [][ lines' = lines \/
        \A p \in PassIds, payload \in LinePayloads :
        \A product_id \in add_line_product(payload) :
        \A line_id \in add_line_existing(p, product_id) :
            LET response == add_line_response(p, payload, product_id, line_id)
                q == get(payload, "counted_qty", 1)
                old == {l \in DOMAIN lines : /\ lines[l].count_pass_id = p
                                             /\ lines[l].sku = product_row(product_id).sku}
            IN (~failed(response) /\ add_line(p, payload)) =>
                 IF old # {}
                 THEN /\ DOMAIN lines' = DOMAIN lines
                      /\ response.code = 200
                      /\ response.body.incremented
                      /\ \A l \in old :
                            /\ lines'[l].counted_qty = lines[l].counted_qty + q
                            /\ response.body.previous_qty = lines[l].counted_qty
                 ELSE /\ response.code = 201
                      /\ ~response.body.incremented
                      /\ \E l \in DOMAIN lines' \ DOMAIN lines :
                            /\ DOMAIN lines' = DOMAIN lines \cup {l}
                            /\ lines'[l].counted_qty = q
                            /\ lines'[l].sku = product_row(product_id).sku
                            /\ lines'[l].count_pass_id = p
      ]_vars

\* C2 witness: a Line created by the alternate code " A2 " with quantity 2 and
\* then scanned once more holds 3.
C2_Witness ==
    \E l \in DOMAIN lines :
        /\ lines[l].barcode = "A2" /\ lines[l].confidence = "scanned"
        /\ lines[l].counted_qty = 3

\* while a pass is submitted or voided, every record on it and every correct and
\* remove of one of its Lines is answered 400 InvalidState
C3_Refused ==
    \A p \in DOMAIN passes :
        passes[p].status \in {"submitted", "voided"} =>
            /\ \A payload \in LinePayloads :
               \A product_id \in add_line_product(payload) :
               \A line_id \in add_line_existing(p, product_id) :
                    add_line_response(p, payload, product_id, line_id)
                        = error(400, InvalidState)
            /\ \A l \in DOMAIN lines_of(p) :
                    /\ \A payload \in CorrectionPayloads :
                            update_line_response(l, payload) = error(400, InvalidState)
                    /\ delete_line_response(l) = error(400, InvalidState)

\* C3: record, correct and remove are answered InvalidState whenever the owning
\* pass is submitted or voided, and from the moment a pass has left in_progress
\* no step creates, changes or deletes a Line of that pass.
C3_LifecycleGuard ==
    [][ vars' = vars \/
        /\ C3_Refused'
        /\ \A p \in DOMAIN passes :
              passes[p].status \in {"submitted", "voided"} => lines_of(p)' = lines_of(p)
      ]_vars

\* C3 witness: a closed pass still holds its Line while Lines were recorded on
\* another pass that was opened after the first one was submitted.
C3_Witness ==
    \E p \in DOMAIN passes, q \in DOMAIN passes :
        /\ passes[p].status \in {"submitted", "voided"}
        /\ passes[p].submitted_at # NONE
        /\ DOMAIN lines_of(p) # {}
        /\ passes[q].status = "in_progress"
        /\ passes[q].started_at > passes[p].submitted_at[1]
        /\ DOMAIN lines_of(q) # {}

\* the session is in_progress and none of its passes is
C4_MaySubmit(s) ==
    /\ sessions[s].status = "in_progress"
    /\ \A p \in DOMAIN passes :
          passes[p].session_id = s => passes[p].status \in {"submitted", "voided"}

status_rank(status) ==
    CASE status = "draft" -> 0
      [] status = "in_progress" -> 1
      [] status = "submitted" -> 2
      [] status = "reconciled" -> 3
      [] status = "closed" -> 4

\* C5: no step moves a session's status to one that is earlier in
\* draft -> in_progress -> submitted -> reconciled -> closed.
C5_SessionForward ==
    [][ \A s \in DOMAIN sessions :
            /\ s \in DOMAIN sessions'
            /\ status_rank(sessions'[s].status) >= status_rank(sessions[s].status)
      ]_vars

\* C5 witness: a session that was started explicitly and submitted without any pass.
C5_Witness ==
    \E s \in DOMAIN sessions :
        sessions[s].status = "submitted" /\ passes_of(s) = {}

\* C6: a pass is created in_progress, and no step changes the status of a pass
\* that is submitted or voided.
C6_BothTerminal ==
    [][ /\ \A p \in DOMAIN passes' \ DOMAIN passes : passes'[p].status = "in_progress"
        /\ \A p \in DOMAIN passes :
              passes[p].status \in {"submitted", "voided"}
                  => passes'[p].status = passes[p].status
      ]_vars

\* C7: void is refused exactly on a voided pass; a successful void leaves the
\* pass voided, from in_progress and from submitted alike; and no step changes
\* a voided pass.
C7_Void ==
    [][ vars' = vars \/
        /\ \A p \in DOMAIN passes' :
              failed(void_pass_response(p))' <=> (passes'[p].status = "voided")
        /\ \A p \in DOMAIN passes :
              /\ passes[p].status = "voided" => passes'[p] = passes[p]
              /\ void_pass(p) => /\ passes[p].status \in {"in_progress", "submitted"}
                                 /\ passes'[p].status = "voided"
      ]_vars

\* C7 witness: a pass that was voided after it had been submitted.
C7_Witness ==
    \E p \in DOMAIN passes :
        passes[p].status = "voided" /\ passes[p].submitted_at # NONE

\* open-pass is refused for a session that is submitted, reconciled or closed,
\* and for a location that does not exist or is of another store
C8_Refused ==
    \A s \in DOMAIN sessions, payload \in PassPayloads :
        LET location_id == get(payload, "location_id", 0) IN
        ( \/ sessions[s].status \in {"submitted", "reconciled", "closed"}
          \/ location_id \notin DOMAIN LocationStore
          \/ LocationStore[location_id] # sessions[s].store_id )
            => failed(create_pass_response(s, payload))

\* C8: open-pass fails on a submitted, reconciled or closed session and on a
\* location that is missing or of another store; a pass is only ever created
\* in a draft or in_progress session at a location of the session's store, and a
\* step that creates no pass leaves every draft session's status to start-session.
C8_OpenRefused ==
    [][ vars' = vars \/
        /\ C8_Refused'
        /\ \A p \in DOMAIN passes' \ DOMAIN passes :
              LET s == passes'[p].session_id IN
              /\ sessions[s].status \in {"draft", "in_progress"}
              /\ passes'[p].location_id \in DOMAIN LocationStore
              /\ LocationStore[passes'[p].location_id] = sessions[s].store_id
        /\ \A s \in DOMAIN sessions, payload \in PassPayloads :
              (failed(create_pass_response(s, payload)) /\ sessions[s].status = "draft"
               /\ DOMAIN passes' = DOMAIN passes /\ sessions'[s].status # "draft")
                  => start_session(s)
      ]_vars

\* C8 witness: a submitted session whose only pass was voided, so that the
\* pass table has room and only the session's status refuses a new pass.
C8_Witness ==
    \E s \in DOMAIN sessions :
        /\ sessions[s].status = "submitted"
        /\ Cardinality(DOMAIN passes) = 1
        /\ \A p \in DOMAIN passes : passes[p].status = "voided"
        /\ failed(create_pass_response(s, [location_id |-> 1]))

\* C9: a step that opens a pass leaves the new pass in_progress and its session
\* in_progress, and in every state no session that owns a pass is draft.
C9_AutoStart ==
    [][ vars' = vars \/
        /\ \A p \in DOMAIN passes' : sessions'[passes'[p].session_id].status # "draft"
        /\ \A p \in DOMAIN passes' \ DOMAIN passes :
              /\ passes'[p].status = "in_progress"
              /\ sessions'[passes'[p].session_id].status = "in_progress"
      ]_vars

\* C9 witness: the first pass of a session is open and nothing has been counted.
C9_Witness ==
    /\ lines = <<>>
    /\ Cardinality(DOMAIN passes) = 1
    /\ \E p \in DOMAIN passes :
          /\ passes[p].status = "in_progress"
          /\ sessions[passes[p].session_id].status = "in_progress"

\* C10: submit-pass succeeds exactly when the pass is in_progress, with or
\* without Lines; it then sets status = submitted and submitted_at = now; and
\* no other step sets or changes submitted_at or makes a pass submitted.
C10_SubmitPass ==
    [][ vars' = vars \/
        /\ \A p \in DOMAIN passes' :
              (~failed(submit_pass_response(p)))' <=> (passes'[p].status = "in_progress")
        /\ \A p \in DOMAIN passes :
              /\ submit_pass(p) => /\ passes[p].status = "in_progress"
                                   /\ passes'[p].status = "submitted"
                                   /\ passes'[p].submitted_at = Some(now)
              /\ ( \/ passes'[p].submitted_at # passes[p].submitted_at
                   \/ (passes'[p].status = "submitted" /\ passes[p].status # "submitted") )
                    => submit_pass(p)
      ]_vars

\* C10 witness: a pass without Lines was submitted later than it was started.
C10_Witness ==
    \E p \in DOMAIN passes :
        /\ passes[p].status = "submitted"
        /\ DOMAIN lines_of(p) = {}
        /\ passes[p].started_at = 0
        /\ passes[p].submitted_at = Some(1)

\* the claim's wording of a mismatch: the scope is set, the product's value is
\* present, and the two differ ignoring case
C11_Differs(scope, actual) ==
    scope # NULL /\ actual # NULL /\ lower(scope) # lower(actual)

\* the answer to every record that resolves to a product, on every open pass
C11_Answers ==
    \A p \in DOMAIN passes, payload \in ScopedLinePayloads :
    \A product_id \in add_line_product(payload) \ {NoRow} :
    \A line_id \in add_line_existing(p, product_id) :
        LET response == add_line_response(p, payload, product_id, line_id)
            product == product_row(product_id)
        IN  passes[p].status = "in_progress" =>
            IF C11_Differs(passes[p].category, product.category)
            THEN response = [code |-> 400,
                             body |-> [error |-> ScopeMismatch,
                                       expected |-> passes[p].category,
                                       got |-> product.category]]
            ELSE IF C11_Differs(passes[p].subcategory, product.subcategory)
            THEN response = [code |-> 400,
                             body |-> [error |-> ScopeMismatch,
                                       expected |-> passes[p].subcategory,
                                       got |-> product.subcategory]]
            ELSE ~failed(response)

\* C11: on a pass with a category (subcategory) scope a record of a product whose
\* category (subcategory) is present and differs from the scope ignoring case is
\* answered ScopeMismatch with the expected and the actual value, a product
\* without that value and every product on a pass without scope is accepted, and
\* no step creates a Line or raises a Line's quantity for a mismatching product.
C11_ScopeEnforced ==
    [][ vars' = vars \/
        /\ C11_Answers'
        /\ \A l \in DOMAIN lines' :
              ( \/ l \notin DOMAIN lines
                \/ lines'[l].counted_qty > lines[l].counted_qty )
              => LET pass == passes[lines'[l].count_pass_id]
                     product == product_row(lines'[l].product_id)
                 IN /\ ~C11_Differs(pass.category, product.category)
                    /\ ~C11_Differs(pass.subcategory, product.subcategory)
      ]_vars

\* C11 witness: an open pass scoped to "flower" holds a Line of the Flower product
\* and a Line of the product without category, and a record of the Edibles
\* product on it is answered ScopeMismatch.
C11_Witness ==
    \E p \in DOMAIN passes :
        /\ passes[p].status = "in_progress"
        /\ passes[p].category = "flower"
        /\ {lines[l].sku : l \in DOMAIN lines_of(p)} = {"A", "C"}
        /\ add_line_response(p, [barcode |-> "B", counted_qty |-> 2], 2, NoRow).body.error
              = ScopeMismatch
\* the items of the variance report of a session
C12_Items(session_id, args) == get_variance_response(session_id, args).body.items

\* the Lines of a SKU on the passes of a session that are submitted now
C12_Submitted(session_id, sku) ==
    {l \in DOMAIN lines : /\ lines[l].sku = sku
                          /\ \E p \in DOMAIN passes : /\ lines[l].count_pass_id = p
                                                      /\ passes[p].session_id = session_id
                                                      /\ passes[p].status = "submitted"}

\* C12: counted_qty of every reported SKU is the sum of counted_qty over the
\* Lines of that SKU on those passes of the session whose status is submitted;
\* Lines of in_progress and voided passes and of other sessions add nothing, and
\* every SKU with such a Line is in the unfiltered report.
C12_CountedSum ==
    \A s \in DOMAIN sessions :
        /\ \A args \in QueryArgs :
           \A i \in DOMAIN C12_Items(s, args) :
                LET item == C12_Items(s, args)[i] IN
                item.counted_qty =
                    sum([l \in DOMAIN lines |-> lines[l].counted_qty],
                        C12_Submitted(s, item.sku))
        /\ \A l \in DOMAIN lines :
                l \in C12_Submitted(s, lines[l].sku)
                    => \E i \in DOMAIN C12_Items(s, <<>>) :
                            C12_Items(s, <<>>)[i].sku = lines[l].sku

\* C12 witness: session 1 has a submitted pass with one A, and a pass with three
\* A that was submitted and then voided; the report counts one A.
C12_Witness ==
    /\ passes[1].status = "submitted" /\ lines[1].counted_qty = 1
    /\ passes[2].session_id = 1 /\ passes[2].status = "voided"
    /\ passes[2].submitted_at # NONE /\ lines[2].sku = "A"
    /\ \E i \in DOMAIN C12_Items(1, <<>>) :
          C12_Items(1, <<>>)[i].sku = "A" /\ C12_Items(1, <<>>)[i].counted_qty = 1

\* the inventory rows of a store for a SKU
C13_Stock(store_id, sku) ==
    {it \in inventory : /\ it.store_id = store_id
                        /\ \E pr \in Products : pr.id = it.product_id /\ pr.sku = sku}

\* C13: every reported item has expected_qty = baseline_qty + movement_delta and
\* variance = counted_qty - expected_qty; baseline_qty is the store's inventory
\* quantity of the SKU, 0 when there is no row (or no quantity); counted_qty is 0
\* when the SKU has no submitted Line.
C13_Expected ==
    \A s \in DOMAIN sessions, args \in QueryArgs :
    \A i \in DOMAIN C12_Items(s, args) :
        LET item == C12_Items(s, args)[i]
            stock == C13_Stock(sessions[s].store_id, item.sku)
        IN  /\ item.expected_qty = item.baseline_qty + item.movement_delta
            /\ item.variance = item.counted_qty - item.expected_qty
            /\ stock = {} => item.baseline_qty = 0
            /\ \A it \in stock :
                  item.baseline_qty = IF it.current_quantity = NONE THEN 0
                                      ELSE it.current_quantity[1]
            /\ C12_Submitted(s, item.sku) = {} => item.counted_qty = 0

\* C13 witness: baseline 2, one sale of 1 in the window, counted 3: expected 1
\* and variance +2.
C13_Witness ==
    \E i \in DOMAIN C12_Items(1, <<>>) :
        LET item == C12_Items(1, <<>>)[i] IN
        /\ item.baseline_qty = 2 /\ item.movement_delta = -1 /\ item.counted_qty = 3
        /\ item.expected_qty = 1 /\ item.variance = 2

\* an instant of the closed interval from the earliest started_at to the latest
\* submitted_at of the submitted passes of a session
C14_InWindow(session_id, t) ==
    /\ \E p \in DOMAIN passes : /\ passes[p].session_id = session_id
                                /\ passes[p].status = "submitted"
                                /\ passes[p].started_at <= t
    /\ \E p \in DOMAIN passes : /\ passes[p].session_id = session_id
                                /\ passes[p].status = "submitted"
                                /\ t <= passes[p].submitted_at[1]

\* C14: movement_delta of every reported SKU is the sum of qty_delta over the
\* Movements of that SKU and of the session's store whose occurred_at lies in
\* [min started_at, max submitted_at] of the session's submitted passes, the two
\* ends and the gap between two passes included, and no other Movement.
C14_Window ==
    \A s \in DOMAIN sessions, args \in QueryArgs :
    \A i \in DOMAIN C12_Items(s, args) :
        LET item == C12_Items(s, args)[i] IN
        item.movement_delta =
            sum([m \in DOMAIN movements |-> movements[m].qty_delta],
                {m \in DOMAIN movements : /\ movements[m].sku = item.sku
                                          /\ movements[m].store_id = sessions[s].store_id
                                          /\ C14_InWindow(s, movements[m].occurred_at)})

\* C14 witness: two submitted passes of session 1, the first over [0, 0] and the
\* second over [2, 2], and a sale of A at instant 1 that the report counts.
C14_Witness ==
    /\ passes[1].status = "submitted" /\ passes[1].submitted_at = Some(0)
    /\ passes[2].status = "submitted" /\ passes[2].started_at = 2
    /\ passes[2].session_id = 1
    /\ \E m \in DOMAIN movements :
          /\ movements[m].occurred_at = 1 /\ movements[m].sku = "A"
          /\ movements[m].store_id = 1
    /\ \E i \in DOMAIN C12_Items(1, <<>>) :
          C12_Items(1, <<>>)[i].sku = "A" /\ C12_Items(1, <<>>)[i].movement_delta < 0

\* C15: for a session none of whose passes is submitted, every reported item has
\* movement_delta = 0 and expected_qty = baseline_qty, whatever the ledger holds.
C15_NoWindow ==
    \A s \in DOMAIN sessions :
        (\A p \in DOMAIN passes :
            passes[p].session_id = s => passes[p].status # "submitted")
        => \A args \in QueryArgs :
           \A i \in DOMAIN C12_Items(s, args) :
                /\ C12_Items(s, args)[i].movement_delta = 0
                /\ C12_Items(s, args)[i].expected_qty = C12_Items(s, args)[i].baseline_qty

\* C15 witness: the only passes of session 1 are voided, one of them after it was
\* submitted over [0, 2]; store 1 sold A at instant 1 and stocks 2 of A; the
\* report expects 2.
C15_Witness ==
    /\ passes[1].status = "voided" /\ passes[1].started_at = 0
    /\ passes[1].submitted_at = Some(2)
    /\ passes[2].session_id = 1 /\ passes[2].status = "voided"
    /\ \E m \in DOMAIN movements :
          /\ movements[m].occurred_at = 1 /\ movements[m].sku = "A"
          /\ movements[m].store_id = 1
    /\ \E i \in DOMAIN C12_Items(1, <<>>) :
          /\ C12_Items(1, <<>>)[i].sku = "A"
          /\ C12_Items(1, <<>>)[i].movement_delta = 0
          /\ C12_Items(1, <<>>)[i].expected_qty = 2

\* C16: with non_zero_only = true the report holds no item whose counted_qty is
\* baseline_qty + movement_delta, and it holds every item of the unfiltered
\* report whose variance is not 0, and no other item.
C16_NonZeroOnly ==
    \A s \in DOMAIN sessions :
        LET full == C12_Items(s, <<>>)
            filtered == C12_Items(s, [non_zero_only |-> "True"])
        IN  /\ \A i \in DOMAIN filtered :
                  filtered[i].counted_qty # filtered[i].baseline_qty + filtered[i].movement_delta
            /\ \A i \in DOMAIN full :
                  full[i].variance # 0 => \E j \in DOMAIN filtered : filtered[j] = full[i]
            /\ \A j \in DOMAIN filtered : \E i \in DOMAIN full : full[i] = filtered[j]
            /\ C12_Items(s, [non_zero_only |-> "no"]) = full

\* C16 witness: the unfiltered report of session 1 has three items, one of them
\* counted and sold with no variance left, and the filtered report is the one
\* item that has a variance.
C16_Witness ==
    LET full == C12_Items(1, <<>>)
        filtered == C12_Items(1, [non_zero_only |-> "True"])
    IN  /\ Len(full) = 3 /\ Len(filtered) = 1
        /\ filtered[1].variance # 0
        /\ \E i \in DOMAIN full :
              /\ full[i].variance = 0 /\ full[i].counted_qty > 0
              /\ full[i].movement_delta < 0

\* the place of a SKU in ascending order
C17_Rank(sku) ==
    CASE sku = "A" -> 1 [] sku = "A2" -> 2 [] sku = "B" -> 3 [] sku = "C" -> 4 [] OTHER -> 5

\* C17: of any two items of a report the earlier one has the larger absolute
\* variance, or the same and the smaller SKU.
C17_Ordered ==
    \A s \in DOMAIN sessions, args \in QueryArgs :
        LET items == C12_Items(s, args) IN
        \A i \in DOMAIN items, j \in DOMAIN items :
            i < j =>
                \/ abs(items[i].variance) > abs(items[j].variance)
                \/ /\ abs(items[i].variance) = abs(items[j].variance)
                   /\ C17_Rank(items[i].sku) < C17_Rank(items[j].sku)

\* C17 witness: the report of session 1 lists B first, then A and C, which have
\* the same absolute variance.
C17_Witness ==
    LET items == C12_Items(1, <<>>) IN
    /\ Len(items) = 3
    /\ items[1].sku = "B" /\ items[2].sku = "A" /\ items[3].sku = "C"
    /\ abs(items[2].variance) = abs(items[3].variance)

\* C18 as stated: no reported item has counted_qty, baseline_qty and
\* movement_delta all 0.
C18_ZeroOmitted ==
    \A s \in DOMAIN sessions, args \in QueryArgs :
    \A i \in DOMAIN C12_Items(s, args) :
        LET item == C12_Items(s, args)[i] IN
        ~(item.counted_qty = 0 /\ item.baseline_qty = 0 /\ item.movement_delta = 0)

\* C18 amended: the unfiltered report lists exactly the SKUs that have a Line on
\* a submitted pass of the session or an inventory row of the store, each once;
\* a SKU that only has Movements is never reported, filtered or not.
C18_UnionOnly ==
    \A s \in DOMAIN sessions :
        /\ \A sku \in {"A", "A2", "B", "C", "X"} :
              (\E i \in DOMAIN C12_Items(s, <<>>) : C12_Items(s, <<>>)[i].sku = sku)
              <=> ( \/ C12_Submitted(s, sku) # {}
                    \/ C13_Stock(sessions[s].store_id, sku) # {} )
        /\ \A i \in DOMAIN C12_Items(s, <<>>), j \in DOMAIN C12_Items(s, <<>>) :
              C12_Items(s, <<>>)[i].sku = C12_Items(s, <<>>)[j].sku => i = j
        /\ \A args \in QueryArgs :
           \A j \in DOMAIN C12_Items(s, args) :
              \E i \in DOMAIN C12_Items(s, <<>>) : C12_Items(s, <<>>)[i] = C12_Items(s, args)[j]

\* C18 witness: store 1 sold B inside the window of session 1, B has no submitted
\* Line and no inventory row and is not reported, while C, stocked at 0 and not
\* counted, is reported with three zeros.
C18_Witness ==
    /\ \E m \in DOMAIN movements :
          /\ movements[m].sku = "B" /\ movements[m].store_id = 1
          /\ C14_InWindow(1, movements[m].occurred_at)
    /\ \A i \in DOMAIN C12_Items(1, <<>>) : C12_Items(1, <<>>)[i].sku # "B"
    /\ \E i \in DOMAIN C12_Items(1, <<>>) :
          /\ C12_Items(1, <<>>)[i].sku = "C"
          /\ C12_Items(1, <<>>)[i].counted_qty = 0
          /\ C12_Items(1, <<>>)[i].baseline_qty = 0
          /\ C12_Items(1, <<>>)[i].movement_delta = 0

\* C19: from every ledger a run can start on, a run without force_resync followed
\* at once by a second run for the same store, the same date range and the same
\* rows of cova_sales leaves the second run with movements_created = 0 and the
\* ledger as the first run left it.
C19_SecondRunCreatesNone ==
    \A store_id \in Stores, range \in SyncRanges, cova_sales \in SaleFeeds :
    \A resolve1 \in resolutions(cova_sales), resolve2 \in resolutions(cova_sales) :
        LET first_run == sync_run(movements, cova_sales, store_id, range[1], range[2],
                                  FALSE, resolve1)
            second_run == sync_run(first_run.ledger, cova_sales, store_id, range[1],
                                   range[2], FALSE, resolve2)
        IN  /\ second_run.stats.movements_created = 0
            /\ second_run.stats.sales_found = first_run.stats.sales_found
            /\ second_run.ledger = first_run.ledger

\* C19 witness: the ledger is what a first run over the sale and the return of
\* day 0 created, and a second run over the same rows finds two sales and skips both.
C19_Witness ==
    \E resolve \in resolutions(<<Sale1, Sale2>>) :
        /\ Len(movements) = 2
        /\ movements = sync_run(<<>>, <<Sale1, Sale2>>, 1, Some(0), Some(0), FALSE, resolve).ledger
        /\ sync_run(movements, <<Sale1, Sale2>>, 1, Some(0), Some(0), FALSE, resolve)
              .stats.movements_skipped = 2

\* the sales-sync Movements of a store whose date lies in [from, to], and how
\* often a row occurs among them
C20_Synced(ledger, store_id, from, to) ==
    {i \in DOMAIN ledger : /\ ledger[i].source = "cova_sync"
                           /\ ledger[i].store_id = store_id
                           /\ date(ledger[i].occurred_at) >= from
                           /\ date(ledger[i].occurred_at) <= to}
C20_Count(ledger, store_id, from, to, m) ==
    Cardinality({i \in C20_Synced(ledger, store_id, from, to) : ledger[i] = m})

\* C20: every run with force_resync leaves, for its store and date range, the
\* same sales-sync Movements (each as often) as a first run over the same rows
\* of cova_sales into an empty ledger leaves.
C20_ForceReproduces ==
    [][ \A store_id \in Stores, range \in SyncRanges, cova_sales \in SaleFeeds :
        \A resolve \in resolutions(cova_sales) :
            LET from == from_date_of(range[1])
                to == to_date_of(range[2])
                forced == sync_run(movements, cova_sales, store_id, range[1], range[2],
                                   TRUE, resolve).ledger
                scratch == sync_run(<<>>, cova_sales, store_id, range[1], range[2],
                                    FALSE, resolve).ledger
            IN  movements' = forced =>
                \A m \in {forced[i] : i \in DOMAIN forced}
                            \cup {scratch[i] : i \in DOMAIN scratch} :
                    C20_Count(movements', store_id, from, to, m)
                        = C20_Count(scratch, store_id, from, to, m)
      ]_vars
\* the rows the feeds of cova_sales hold
C21_Sales == UNION {{cova_sales[i] : i \in DOMAIN cova_sales} : cova_sales \in SaleFeeds}

\* C21: every Movement of the sales sync in the ledger has movement_type = sale,
\* a qty_delta that is not positive, and comes from a row of cova_sales: it has
\* the row's SKU, minus the absolute value of the row's quantity, and the row's
\* transaction id and line number, joined by a colon, as source_ref.
C21_SaleMovement ==
    \A i \in DOMAIN movements :
        movements[i].source = "cova_sync" =>
            /\ movements[i].movement_type = "sale"
            /\ movements[i].qty_delta <= 0
            /\ \E sale \in C21_Sales :
                  /\ movements[i].sku = sale.product_sku
                  /\ movements[i].qty_delta =
                        (IF sale.quantity < 0 THEN sale.quantity ELSE 0 - sale.quantity)
                  /\ \/ /\ sale.transaction_id = "T1" /\ sale.line_number = 1
                        /\ movements[i].source_ref = "T1:1"
                     \/ /\ sale.transaction_id = "T1" /\ sale.line_number = 2
                        /\ movements[i].source_ref = "T1:2"
                     \/ /\ sale.transaction_id = "T2" /\ sale.line_number = 1
                        /\ movements[i].source_ref = "T2:1"
                     \/ /\ sale.transaction_id = "T2" /\ sale.line_number = 2
                        /\ movements[i].source_ref = "T2:2"

\* C21 witness: the ledger holds the Movement of a sale of 1 and the Movement of
\* the row booked with quantity -2.
C21_Witness ==
    /\ \E i \in DOMAIN movements :
          /\ movements[i].source_ref = "T1:1" /\ movements[i].qty_delta = -1
          /\ movements[i].movement_type = "sale"
    /\ \E i \in DOMAIN movements :
          /\ movements[i].source_ref = "T1:2" /\ movements[i].qty_delta = -2
          /\ movements[i].sku = "A2"
\* the rows of cova_sales a run for the store reads, and whether the SKU of a
\* row is the sku or the cova_sku of a product
C22_Read(cova_sales, store_id, from, to) ==
    {i \in DOMAIN cova_sales :
        /\ cova_sales[i].transaction_date >= from
        /\ cova_sales[i].transaction_date <= to
        /\ cova_sales[i].cova_store_id \in get_cova_store_ids(store_id)
        /\ cova_sales[i].product_sku # NULL}
C22_Resolves(sku) == \E pr \in Products : pr.sku = sku \/ pr.cova_sku = sku

\* C22: a run, forced or not, over rows some of whose SKUs belong to no product
\* reports no error; it adds no Movement of such a SKU to the ledger and lists
\* the SKU once in products_not_found; and it leaves a Movement of every other
\* row it read in the ledger, wherever in the batch the row stands.
C22_UnresolvedSkipped ==
    \A store_id \in Stores, range \in SyncRanges, force_resync \in BOOLEAN,
       cova_sales \in SaleFeeds :
    \A resolve \in resolutions(cova_sales) :
        LET run == sync_run(movements, cova_sales, store_id, range[1], range[2],
                            force_resync, resolve)
            read == C22_Read(cova_sales, store_id, from_date_of(range[1]), to_date_of(range[2]))
            not_found == run.stats.products_not_found
        IN  /\ run.stats.errors = <<>>
            /\ \A i \in DOMAIN not_found : \E j \in read :
                    /\ cova_sales[j].product_sku = not_found[i]
                    /\ ~C22_Resolves(not_found[i])
            /\ \A j \in read :
                    IF C22_Resolves(cova_sales[j].product_sku)
                    THEN \E k \in DOMAIN run.ledger :
                            /\ run.ledger[k].store_id = store_id
                            /\ run.ledger[k].sku = cova_sales[j].product_sku
                            /\ run.ledger[k].source_ref
                                 = format_ref(cova_sales[j].transaction_id, cova_sales[j].line_number)
                    ELSE /\ Cardinality({i \in DOMAIN not_found :
                                            not_found[i] = cova_sales[j].product_sku}) = 1
                         /\ \A k \in DOMAIN run.ledger :
                                run.ledger[k].sku # cova_sales[j].product_sku

\* C22 witness: the ledger is what a run over a row of the unknown SKU X, the
\* sale of A, and another row of X left: the run read 3 rows, created the
\* Movement of A, skipped 2 rows and listed X once.
C22_Witness ==
    LET cova_sales == <<Sale3, Sale1, [Sale3 EXCEPT !.line_number = 2, !.transaction_date = 0,
                                                    !.transaction_time = Some(1)]>>
        run == sync_run(<<>>, cova_sales, 1, NONE, NONE, FALSE,
                        CHOOSE resolve \in resolutions(cova_sales) : TRUE)
    IN  /\ movements = run.ledger
        /\ Len(movements) = 1 /\ movements[1].sku = "A"
        /\ run.stats.sales_found = 3
        /\ run.stats.movements_created = 1
        /\ run.stats.movements_skipped = 2
        /\ run.stats.products_not_found = <<"X">>
\* a call that ends in a fatal error reports one error
C23_OneError ==
    \A store_id \in Stores, range \in SyncRanges, force_resync \in BOOLEAN,
       cova_sales \in SaleFeeds, fatal \in {"query", "commit"} :
    \A resolve \in resolutions(cova_sales) :
        Len(sync_response(movements, cova_sales, store_id, range[1], range[2],
                          force_resync, resolve, fatal).errors) = 1

C24_CountStep ==
    \/ \E payload \in {[store_id |-> 1]} : create_session(payload)
    \/ \E s \in SessionIds : start_session(s) \/ submit_session(s)
    \/ \E s \in SessionIds, payload \in {[location_id |-> 1]} : create_pass(s, payload)
    \/ \E p \in PassIds : submit_pass(p) \/ void_pass(p)
    \/ \E p \in PassIds, payload \in {[barcode |-> "A"]} : add_line(p, payload)
    \/ \E l \in LineIds, payload \in {[counted_qty |-> 2]} : update_line(l, payload)
    \/ \E l \in LineIds : delete_line(l)
    \/ \E s \in SessionIds, args \in QueryArgs : get_variance(s, args)

\* a step of a sync run that commits
C24_SyncStep(force_resync) ==
    \E store_id \in {1}, range \in LedgerRanges, cova_sales \in LedgerFeeds :
        sync_sales_to_movements(store_id, range[1], range[2], force_resync, cova_sales, "none")

\* C24: a variance request changes no state; a step that changes the ledger is
\* no step of a session, pass, line or variance operation but a step of a sync
\* run; and it either appends sales-sync Movements to the ledger, leaving the
\* Movements it held as they were, or is a step of a run with force_resync.
C24_LedgerFrame ==
    [][ /\ (\E s \in SessionIds, args \in QueryArgs : get_variance(s, args)) => vars' = vars
        /\ \/ movements' = movements
           \/ /\ ~C24_CountStep
              /\ C24_SyncStep(TRUE) \/ C24_SyncStep(FALSE)
              /\ \/ C24_SyncStep(TRUE)
                 \/ /\ Len(movements') > Len(movements)
                    /\ SubSeq(movements', 1, Len(movements)) = movements
                    /\ \A i \in (Len(movements) + 1)..Len(movements') :
                          movements'[i].source = "cova_sync"
      ]_vars

\* C24 witness: a pass was submitted with a Line, the session submitted and the
\* variance asked for, over a ledger that holds the manual Movement and the
\* Movements of two synced sales.
C24_Witness ==
    /\ \E s \in DOMAIN sessions : sessions[s].status = "submitted"
    /\ \E l \in DOMAIN lines : passes[lines[l].count_pass_id].status = "submitted"
    /\ Len(movements) = 4 /\ movements[1] = Manual1
    /\ Cardinality({i \in DOMAIN movements : movements[i].source = "cova_sync"
                                              /\ movements[i].store_id = 1}) >= 2
    /\ ~failed(get_variance_response(1, <<>>))
\* C25: a step of correct on a Line of an in_progress pass leaves the Line with
\* the counted_qty of the request, or with the one it had when the request has
\* none, and with confidence = corrected; and a step of record on a corrected
\* Line that holds n leaves it with n plus the recorded quantity.
C25_CorrectReplaces ==
    [][ vars' = vars \/
        /\ \A l \in DOMAIN lines, payload \in CorrectionPayloads :
              (passes[lines[l].count_pass_id].status = "in_progress" /\ update_line(l, payload))
              => /\ lines'[l].counted_qty =
                        (IF "counted_qty" \in DOMAIN payload
                         THEN payload["counted_qty"] ELSE lines[l].counted_qty)
                 /\ lines'[l].confidence = "corrected"
                 /\ \A k \in DOMAIN lines \ {l} : lines'[k] = lines[k]
        /\ \A l \in DOMAIN lines, p \in PassIds, payload \in LinePayloads :
              ( /\ lines[l].confidence = "corrected"
                /\ lines[l].count_pass_id = p
                /\ add_line(p, payload)
                /\ l \in DOMAIN lines' /\ lines'[l] # lines[l] )
              => lines'[l].counted_qty = lines[l].counted_qty + get(payload, "counted_qty", 1)
      ]_vars

\* C25 witness: a Line that was corrected to 2 and then recorded once more
\* holds 3 and is still marked corrected.
C25_Witness ==
    \E l \in DOMAIN lines :
        /\ lines[l].confidence = "corrected"
        /\ lines[l].counted_qty = 3
        /\ passes[lines[l].count_pass_id].status = "in_progress"
\* the record requests whose barcode is the sku or cova_sku of no product
C26_Unknown ==
    {payload \in LinePayloads :
        /\ "barcode" \in DOMAIN payload
        /\ \A pr \in Products :
              pr.sku # strip(payload["barcode"]) /\ pr.cova_sku # strip(payload["barcode"])}

\* record with such a barcode on an in_progress pass is answered 404 NotFound,
\* and on any pass it fails
C26_NotFound ==
    \A p \in PassIds, payload \in C26_Unknown :
    \A product_id \in add_line_product(payload) :
    \A line_id \in add_line_existing(p, product_id) :
        /\ failed(add_line_response(p, payload, product_id, line_id))
        /\ (p \in DOMAIN passes /\ passes[p].status = "in_progress")
              => add_line_response(p, payload, product_id, line_id) = error(404, NotFound)

\* C26: record with a barcode that matches neither the sku nor the cova_sku of a
\* product fails, with NotFound on an in_progress pass, and no step that creates
\* or changes a Line is a step of such a request.
C26_UnknownBarcode ==
    /\ []C26_NotFound
    /\ [][ lines' = lines \/
           \A p \in PassIds, payload \in C26_Unknown : ~add_line(p, payload) ]_vars

\* C26 witness: an in_progress pass that holds a Line and room for another, to
\* which the record of the unknown barcode X is answered NotFound.
C26_Witness ==
    \E p \in DOMAIN passes :
        /\ passes[p].status = "in_progress"
        /\ \E l \in DOMAIN lines : lines[l].count_pass_id = p
        /\ has_fresh(LineIds, lines)
        /\ [barcode |-> "X"] \in C26_Unknown
        /\ add_line_response(p, [barcode |-> "X"], NoRow, NoRow) = error(404, NotFound)
\* the Lines of a SKU in a pass, and the quantity they hold together
C27_Lines(table, pass_id, sku) ==
    {l \in DOMAIN table : table[l].count_pass_id = pass_id /\ table[l].sku = sku}
C27_Total(table, pass_id, sku) ==
    sum([l \in C27_Lines(table, pass_id, sku) |-> table[l].counted_qty],
        C27_Lines(table, pass_id, sku))

\* C27: the commit of a record request, however its handler was interleaved with
\* another one's, leaves exactly one Line of the SKU in the pass, and the
\* quantity counted of the SKU in the pass grown by the quantity recorded.
C27_ConcurrentRecord ==
    [][ \A r \in DOMAIN requests :
            LET pass_id == requests[r].pass_id
                sku == requests[r].response.body.line.sku
            IN  (add_line_commit(r) /\ C27_Lines(lines, pass_id, sku) \subseteq DOMAIN lines')
                => /\ Cardinality(C27_Lines(lines', pass_id, sku)) = 1
                   /\ C27_Total(lines', pass_id, sku)
                        = C27_Total(lines, pass_id, sku)
                            + get(requests[r].payload, "counted_qty", 1)
      ]_vars
\* C28: a step leaves every pass in the table with the started_at it had, and a
\* pass it creates has the instant of its creation as started_at.
C28_StartedAtKept ==
    [][ vars' = vars \/
        /\ \A p \in DOMAIN passes :
              p \in DOMAIN passes' /\ passes'[p].started_at = passes[p].started_at
        /\ \A p \in DOMAIN passes' \ DOMAIN passes : passes'[p].started_at = now
      ]_vars

\* C28 witness: a pass opened at instant 0 was submitted at instant 1, holds a
\* Line, and its session is submitted.
C28_Witness ==
    \E p \in DOMAIN passes :
        /\ passes[p].started_at = 0 /\ now = 1
        /\ passes[p].status = "submitted" /\ passes[p].submitted_at = Some(1)
        /\ \E l \in DOMAIN lines : lines[l].count_pass_id = p
        /\ sessions[passes[p].session_id].status = "submitted"

\* an in_progress pass has no submitted_at, a submitted pass has one that is not
\* earlier than its started_at
C29_Stamped ==
    \A p \in DOMAIN passes :
        /\ passes[p].status = "in_progress" => passes[p].submitted_at = NONE
        /\ passes[p].status = "submitted" =>
              /\ passes[p].submitted_at # NONE
              /\ passes[p].submitted_at[1] >= passes[p].started_at

\* C29: in every state C29_Stamped holds; a pass is created without
\* submitted_at; only the step that submits a pass sets its submitted_at; and
\* no step, void-pass included, changes or clears a submitted_at that is set.
C29_SubmittedAt ==
    /\ []C29_Stamped
    /\ [][ vars' = vars \/
           /\ \A p \in DOMAIN passes' \ DOMAIN passes : passes'[p].submitted_at = NONE
           /\ \A p \in DOMAIN passes :
                IF passes[p].submitted_at # NONE
                THEN passes'[p].submitted_at = passes[p].submitted_at
                ELSE passes'[p].submitted_at # NONE
                        => /\ passes[p].status = "in_progress"
                           /\ passes'[p].status = "submitted"
                           /\ submit_pass(p)
         ]_vars

\* C29 witness: a pass submitted at instant 1 and then voided still has
\* submitted_at = 1, beside a pass that was voided without being submitted.
C29_Witness ==
    \E p \in DOMAIN passes, q \in DOMAIN passes :
        /\ passes[p].status = "voided" /\ passes[p].submitted_at = Some(1)
        /\ passes[p].started_at = 0
        /\ passes[q].status = "voided" /\ passes[q].submitted_at = NONE
\* how often a row occurs in a ledger
C30_Count(ledger, m) == Cardinality({i \in DOMAIN ledger : ledger[i] = m})

\* the Movements a run for the store over [from, to] may not delete: those of
\* another store, of a date outside the range, or of another source
C30_Outside(store_id, from, to) ==
    {m \in {movements[i] : i \in DOMAIN movements} :
        \/ m.store_id # store_id
        \/ m.occurred_at \div TimesPerDay < from
        \/ m.occurred_at \div TimesPerDay > to
        \/ m.source # "cova_sync"}

\* C30: a step of a sync run leaves every Movement of another store, of a date
\* outside [from_date, to_date] and of a source other than the sales sync in the
\* ledger, as often as it was there; and a step of a run without force_resync
\* only appends to the ledger.
C30_BoundedDelete ==
    [][ movements' = movements \/
        \A range \in LedgerRanges, cova_sales \in LedgerFeeds, force_resync \in BOOLEAN :
            sync_sales_to_movements(1, range[1], range[2], force_resync, cova_sales, "none")
            => /\ \A m \in C30_Outside(1, range[1][1], range[2][1]) :
                     C30_Count(movements', m) = C30_Count(movements, m)
               /\ ~force_resync =>
                     /\ Len(movements') > Len(movements)
                     /\ SubSeq(movements', 1, Len(movements)) = movements
      ]_vars

\* C30 witness: the ledger holds a manual Movement of day 0, a synced sale of
\* store 2, and synced sales of store 1 of day 0 and of day 1; a forced run for
\* store 1 over day 0 deletes the third and only the third.
C30_Witness ==
    /\ Len(movements) = 4
    /\ movements[1] = Manual1
    /\ movements[2].store_id = 2 /\ movements[2].source = "cova_sync"
    /\ movements[3].store_id = 1 /\ movements[3].source = "cova_sync"
    /\ movements[3].occurred_at \div TimesPerDay = 0
    /\ movements[4].store_id = 1 /\ movements[4].source = "cova_sync"
    /\ movements[4].occurred_at \div TimesPerDay = 1
    /\ resync_deletes(movements, 1, 0, 0) = {movements[3]}
\* C31: the ledger never holds two Movements with the same store, SKU and
\* source_ref.
C31_OneMovementPerKey ==
    \A i \in DOMAIN movements, j \in DOMAIN movements :
        ( /\ movements[i].store_id = movements[j].store_id
          /\ movements[i].sku = movements[j].sku
          /\ movements[i].source_ref = movements[j].source_ref ) => i = j
\* C32: runs without force_resync for one store over overlapping date ranges,
\* served at the same time, leave at most one Movement of the store for each
\* row of cova_sales.
C32_CreatedOnce ==
    \A cova_sales \in SyncRaceFeeds : \A k \in DOMAIN cova_sales :
        Cardinality({i \in DOMAIN movements :
                        /\ movements[i].store_id = 1
                        /\ movements[i].sku = cova_sales[k].product_sku
                        /\ movements[i].source_ref
                             = format_ref(cova_sales[k].transaction_id,
                                          cova_sales[k].line_number)}) <= 1
\* C33: however an open-pass request and a submit-session request on one
\* session interleave, no submitted session owns an in_progress pass.
C33_NoOpenPassInSubmitted ==
    \A p \in DOMAIN passes :
        sessions[passes[p].session_id].status = "submitted" => passes[p].status # "in_progress"

\* C34: however a submit-pass or void-pass request interleaves with a record,
\* correct or remove request on the pass, a step that creates, changes or
\* deletes a Line finds the pass of the Line in_progress.
C34_NoLateLineWrite ==
    [][ lines' = lines \/
        /\ \A l \in DOMAIN lines' :
              (l \notin DOMAIN lines \/ lines'[l] # lines[l])
                  => passes[lines'[l].count_pass_id].status = "in_progress"
        /\ \A l \in DOMAIN lines \ DOMAIN lines' :
              passes[lines[l].count_pass_id].status = "in_progress"
      ]_vars
\* C35: a Line is keyed by the primary SKU of the product its barcode resolves
\* to: every Line carries its product's primary SKU, a pass holds one Line per
\* product, and a record whose code (primary or alternate) resolves to a
\* product the pass already holds a Line for adds its quantity to that Line,
\* whose sku and barcode stay as the first scan wrote them.
C35_PrimarySku(code) ==
    CHOOSE sku \in {pr.sku : pr \in Products} :
        \E pr \in Products : pr.sku = sku /\ (pr.sku = code \/ pr.cova_sku = code)
C35_Keyed ==
    /\ \A l \in DOMAIN lines :
          /\ lines[l].sku = C35_PrimarySku(lines[l].barcode)
          /\ \E pr \in Products : pr.id = lines[l].product_id /\ pr.sku = lines[l].sku
    /\ \A l1, l2 \in DOMAIN lines :
          (lines[l1].count_pass_id = lines[l2].count_pass_id /\ lines[l1].sku = lines[l2].sku)
              => l1 = l2
C35_OneLinePerProduct ==
    /\ []C35_Keyed
    /\ [][ lines' = lines \/
           \A p \in PassIds, payload \in {[barcode |-> "A"], [barcode |-> " A2 ", counted_qty |-> 2]} :
            \A l \in DOMAIN lines :
                (/\ lines[l].count_pass_id = p
                 /\ lines[l].sku = C35_PrimarySku(strip(payload.barcode))
                 /\ add_line(p, payload))
                    => /\ DOMAIN lines' = DOMAIN lines
                       /\ lines'[l].counted_qty = lines[l].counted_qty + get(payload, "counted_qty", 1)
                       /\ lines'[l].sku = lines[l].sku
                       /\ lines'[l].barcode = lines[l].barcode
                       /\ \A k \in DOMAIN lines \ {l} : lines'[k] = lines[k]
         ]_vars
C35_Witness ==
    \E l \in DOMAIN lines :
        /\ lines[l].barcode = "A2" /\ lines[l].sku = "A"
        /\ lines[l].counted_qty = 3 /\ lines[l].confidence = "scanned"
\* C36: total_skus is the number of items the report returns and
\* total_variance the sum of their absolute variances; so total_variance is
\* the same with and without non_zero_only, and total_skus of the filtered
\* report counts the SKUs whose variance is not 0.
RECURSIVE C36_AbsSum(_)
C36_AbsSum(items) ==
    IF items = <<>> THEN 0
    ELSE (IF Head(items).variance < 0 THEN 0 - Head(items).variance ELSE Head(items).variance)
            + C36_AbsSum(Tail(items))
C36_Totals ==
    \A s \in DOMAIN sessions :
        LET full == get_variance_response(s, <<>>).body
            filtered == get_variance_response(s, [non_zero_only |-> "True"]).body
        IN /\ full.total_skus = Len(full.items)
           /\ filtered.total_skus = Len(filtered.items)
           /\ full.total_variance = C36_AbsSum(full.items)
           /\ filtered.total_variance = C36_AbsSum(filtered.items)
           /\ filtered.total_variance = full.total_variance
           /\ filtered.total_skus =
                Cardinality({i \in DOMAIN full.items : full.items[i].variance # 0})
C36_Witness ==
    \E s \in DOMAIN sessions :
        LET full == get_variance_response(s, <<>>).body
            filtered == get_variance_response(s, [non_zero_only |-> "True"]).body
        IN /\ \E i \in DOMAIN full.items : full.items[i].variance < 0
           /\ \E i \in DOMAIN full.items : full.items[i].variance > 0
           /\ \E i \in DOMAIN full.items : full.items[i].variance = 0
           /\ filtered.total_skus = 2 /\ full.total_skus = 3
           /\ filtered.total_variance > 0
\* C37: a record that increments an existing Line adds its quantity to
\* counted_qty, stamps the capture time, and replaces notes only when the
\* request carries notes that are not empty; sku, product, barcode, package_id
\* and confidence stay as they were, a corrected Line staying corrected.
C37_Notes(payload) ==
    IF "notes" \in DOMAIN payload /\ payload.notes \notin {"", " "} THEN payload.notes ELSE NULL
C37_IncrementFrame ==
    [][ lines' = lines \/
        \A p \in PassIds, payload \in RecordPayloads :
            \A l \in DOMAIN lines :
                (/\ lines[l].count_pass_id = p
                 /\ add_line(p, payload))
                    => /\ DOMAIN lines' = DOMAIN lines
                       /\ \A k \in DOMAIN lines \ {l} : lines'[k] = lines[k]
                       /\ lines'[l].counted_qty = lines[l].counted_qty + get(payload, "counted_qty", 1)
                       /\ lines'[l].captured_at = now
                       /\ lines'[l].notes = IF C37_Notes(payload) # NULL
                                            THEN C37_Notes(payload) ELSE lines[l].notes
                       /\ lines'[l].sku = lines[l].sku
                       /\ lines'[l].product_id = lines[l].product_id
                       /\ lines'[l].barcode = lines[l].barcode
                       /\ lines'[l].package_id = lines[l].package_id
                       /\ lines'[l].confidence = lines[l].confidence
                       /\ lines'[l].count_pass_id = lines[l].count_pass_id
      ]_vars
C37_Witness ==
    \E l \in DOMAIN lines :
        /\ lines[l].package_id = "PK1" /\ lines[l].barcode = "A"
        /\ lines[l].confidence = "corrected"
        /\ lines[l].notes = "second"
        /\ lines[l].counted_qty = 2
        /\ lines[l].captured_at = 1
\* C38: a run without a fatal error reports sales_found = movements_created +
\* movements_skipped + the number of per-row errors; movements_created is the
\* number of Movements the run added to the ledger, the errors are the rows
\* that raised, and movements_skipped counts the rows that resolved to no
\* product together with the rows that were already synced.
C38_Rows(cova_sales, store_id, range) ==
    sales_query(cova_sales, store_id, from_date_of(range[1]), to_date_of(range[2]))
C38_Unresolved(sales, resolve) ==
    {i \in DOMAIN sales : sales[i].product_sku \in {NULL, ""} \/ resolve[sales[i].product_sku] = NoRow}
C38_Raised(sales, resolve) ==
    {i \in DOMAIN sales \ C38_Unresolved(sales, resolve) : DOMAIN sales[i] # DOMAIN Sale1}
C38_Key(sale) == <<sale.product_sku, sale.transaction_id, sale.line_number>>
C38_Synced(store_id) ==
    {key \in {"A", "A2", "B", "C", "X"} \X {"T1", "T2"} \X {1, 2} :
        \E i \in DOMAIN movements :
            /\ movements[i].store_id = store_id
            /\ movements[i].sku = key[1]
            /\ movements[i].source_ref = format_ref(key[2], key[3])}
C38_Tally ==
    \A store_id \in Stores, range \in TallyRanges, force_resync \in BOOLEAN, cova_sales \in TallyFeeds :
        \A resolve \in resolutions(cova_sales) :
            LET run == sync_run(movements, cova_sales, store_id, range[1], range[2],
                                force_resync, resolve)
                stats == sync_response(movements, cova_sales, store_id, range[1], range[2],
                                       force_resync, resolve, "none")
                sales == C38_Rows(cova_sales, store_id, range)
                unresolved == C38_Unresolved(sales, resolve)
                raised == C38_Raised(sales, resolve)
                built == (DOMAIN sales \ unresolved) \ raised
                fresh_keys == {C38_Key(sales[i]) : i \in built} \ C38_Synced(store_id)
                deleted == IF force_resync THEN stats.movements_deleted[1] ELSE 0
            IN  /\ stats.sales_found = Len(sales)
                /\ stats.sales_found =
                        stats.movements_created + stats.movements_skipped + Len(stats.errors)
                /\ Len(stats.errors) = Cardinality(raised)
                /\ stats.movements_created = Len(run.ledger) - (Len(movements) - deleted)
                /\ stats.movements_created =
                        IF force_resync THEN Cardinality(built) ELSE Cardinality(fresh_keys)
                /\ stats.movements_skipped =
                        Cardinality(unresolved)
                            + (IF force_resync THEN 0
                               ELSE Cardinality(built) - Cardinality(fresh_keys))
C38_Witness ==
    /\ movements # <<>>
    /\ \E cova_sales \in TallyFeeds : \E resolve \in resolutions(cova_sales) :
        LET stats == sync_response(movements, cova_sales, 1, NONE, NONE, FALSE, resolve, "none")
        IN  /\ stats.sales_found = 3
            /\ stats.movements_created = 0
            /\ stats.movements_skipped = 2
            /\ Len(stats.errors) = 1
            /\ Len(stats.products_not_found) = 1
\* C39: once a session is submitted, with requests served one at a time, no
\* step opens a pass in it and no step creates, changes or removes a Line of
\* its passes; the session stays as it is, and the only change left is a
\* submitted pass of it becoming voided.
C39_Passes(table, s) == {p \in DOMAIN table : table[p].session_id = s}
C39_Lines(table, s) == {l \in DOMAIN table : passes[table[l].count_pass_id].session_id = s}
C39_SubmittedFrozen ==
    [][ \A s \in DOMAIN sessions :
            sessions[s].status = "submitted" =>
                /\ sessions'[s] = sessions[s]
                /\ C39_Passes(passes', s) = C39_Passes(passes, s)
                /\ \A p \in C39_Passes(passes, s) :
                      \/ passes'[p] = passes[p]
                      \/ /\ passes[p].status = "submitted"
                         /\ passes'[p] = [passes[p] EXCEPT !.status = "voided"]
                /\ C39_Lines(lines', s) = C39_Lines(lines, s)
                /\ \A l \in C39_Lines(lines, s) : lines'[l] = lines[l]
      ]_vars
C39_Witness ==
    \E s \in DOMAIN sessions, p \in DOMAIN passes, l \in DOMAIN lines :
        /\ sessions[s].status = "submitted"
        /\ passes[p].session_id = s
        /\ passes[p].status = "voided" /\ passes[p].submitted_at # NONE
        /\ lines[l].count_pass_id = p
        /\ \E q \in DOMAIN passes : passes[q].session_id = s /\ passes[q].status = "submitted"

\* C40: the only status changes of a session are draft to in_progress and
\* in_progress to submitted; in every state a session is draft, in_progress or
\* submitted, and its closed_at is NULL.
C40_Status ==
    \A s \in DOMAIN sessions :
        /\ sessions[s].status \in {"draft", "in_progress", "submitted"}
        /\ sessions[s].closed_at = NONE
C40_Transitions ==
    /\ []C40_Status
    /\ [][ \A s \in DOMAIN sessions :
            /\ s \in DOMAIN sessions'
            /\ sessions'[s].store_id = sessions[s].store_id
            /\ \/ sessions'[s].status = sessions[s].status
               \/ sessions[s].status = "draft" /\ sessions'[s].status = "in_progress"
               \/ sessions[s].status = "in_progress" /\ sessions'[s].status = "submitted"
         ]_vars
C40_Witness ==
    \E s \in DOMAIN sessions :
        /\ sessions[s].status = "submitted" /\ sessions[s].closed_at = NONE
        /\ \E p \in DOMAIN passes : passes[p].session_id = s
====
